---- MODULE Spec2Model ----
(***************************************************************************)
(* log(OS): a two-player word-placement game whose board carries operator  *)
(* cells.  The module models the rules-and-scoring engine of App.tsx       *)
(* (validation, blank resolution, base scoring, chain compilation) and the *)
(* turn handlers that drive it.                                            *)
(*                                                                         *)
(* Conventions: a letter is a one-character string, the JavaScript null    *)
(* letter is the empty string (both are falsy in the source), a word is a  *)
(* sequence of letters, a grid is a function grid[r][c] over 0..10, and a  *)
(* missing optional field (isLocked, isBlank, turnPlaced) is FALSE / 0,    *)
(* which is how every read of the source treats undefined.                 *)
(***************************************************************************)
EXTENDS Integers, Sequences, FiniteSets, TLC

VARIABLES
    grid,          \* CellData[][]: the board
    gameMode,      \* "DYNAMIC" | "FIXED"
    placementMode, \* "ACROSTIC" | "GO"
    dictionary,    \* Set<string> | null
    isLoadingDict, \* the dictionary fetch has not finished
    tileBag,       \* string[]
    playerHand,    \* string[]
    cpuHand,       \* string[]
    turnMoves,     \* {r, c, letter}[]: the in-progress move
    isCpuTurn,     \* the opponent is to move
    turnCount,     \* turn counter
    playerScore,
    cpuScore,
    playMode,      \* "VS_CPU" | "P2P_HOST" | "P2P_CLIENT"
    connRef,       \* connRef.current holds an open connection
    sent,          \* snapshots handed to connRef.current.send, oldest first
    rawOps,        \* the operator entries the scans of analyzeBoardLogic collect
    peer,          \* the other instance of a P2P session (its own state)
    inbox,         \* snapshots on their way to this instance, oldest first
    timer,         \* the INIT_GAME payload held by the host's setTimeout
    search,        \* performCpuTurnAsync: where the opponent's search stands
    snapshots,     \* how many snapshots the session has carried so far
    call,          \* the function applied by the last step, with its inputs
    out            \* what that function returned

vars == <<grid, gameMode, placementMode, dictionary, isLoadingDict, tileBag,
          playerHand, cpuHand, turnMoves, isCpuTurn, turnCount, playerScore,
          cpuScore, playMode, connRef, sent, rawOps, peer, inbox, timer,
          search, snapshots, call, out>>

gameVars == <<grid, gameMode, placementMode, dictionary, isLoadingDict, tileBag,
              playerHand, cpuHand, turnMoves, isCpuTurn, turnCount, playerScore,
              cpuScore, playMode, connRef, sent, rawOps, peer, inbox, timer,
              search, snapshots>>

-----------------------------------------------------------------------------
(* Constants of the program *)

BOARD_SIZE == 11

Coords == 0 .. (BOARD_SIZE - 1)

NoLetter == ""

Abs(x) == IF x < 0 THEN 0 - x ELSE x

alphabet ==
    <<"A", "B", "C", "D", "E", "F", "G", "H", "I", "J", "K", "L", "M",
      "N", "O", "P", "Q", "R", "S", "T", "U", "V", "W", "X", "Y", "Z">>

LETTER_VALUES ==
    [A |-> 1, B |-> 3, C |-> 3, D |-> 2, E |-> 1, F |-> 4, G |-> 2, H |-> 4,
     I |-> 1, J |-> 8, K |-> 5, L |-> 1, M |-> 3, N |-> 1, O |-> 1, P |-> 3,
     Q |-> 10, R |-> 1, S |-> 1, T |-> 1, U |-> 1, V |-> 4, W |-> 4, X |-> 8,
     Y |-> 4, Z |-> 10] @@ ("*" :> 0)

\* LETTER_VALUES[letter] || 0
LetterValue(letter) ==
    IF letter \in DOMAIN LETTER_VALUES THEN LETTER_VALUES[letter] ELSE 0

\* The dictionary state: null until the word list is loaded, then a Set.
null == [isNull |-> TRUE, words |-> {}]

WordSet(words) == [isNull |-> FALSE, words |-> words]

has(dict, word) == word \in dict.words

-----------------------------------------------------------------------------
(* Board layout *)

\* (mutant) the inner ring is tested before the overrides
OperatorAt_RingFirst(r, c) ==
    IF (r = 0 \/ r = BOARD_SIZE - 1) /\ (c = 0 \/ c = BOARD_SIZE - 1) THEN "MULT"
    ELSE IF r = 5 /\ c = 5 THEN "START"
    ELSE IF (r = 2 \/ r = 8) /\ (c = 2 \/ c = 8) THEN "IF"
    ELSE IF (r = 2 \/ r = 8) /\ c = 5 THEN "THEN"
    ELSE IF (c = 2 \/ c = 8) /\ r = 5 THEN "THEN"
    ELSE IF r = 2 /\ c = 8 THEN "OVER"
    ELSE IF r = 4 /\ c = 4 THEN "IF"
    ELSE IF r = 5 /\ c = 0 THEN "OVER"
    ELSE IF r = 6 /\ c = 6 THEN "OR"
    ELSE IF r = 5 /\ c = 10 THEN "IF"
    ELSE IF r = 8 /\ c = 2 THEN "OR"
    ELSE IF Abs(r - 5) = Abs(c - 5) /\ r # 5 /\ r # 0 /\ r # 10
        THEN (IF Abs(r - 5) = 1 THEN "OVER" ELSE "AND")
    ELSE IF (r = 1 \/ r = 9) /\ c = 5 THEN "PLUS"
    ELSE IF (c = 1 \/ c = 9) /\ r = 5 THEN "MINUS"
    ELSE IF (r = 0 \/ r = 10) /\ c = 5 THEN "OR"
    ELSE IF (c = 0 \/ c = 10) /\ r = 5 THEN "OR"
    ELSE "NONE"

OperatorAt(r, c) ==
    IF (r = 0 \/ r = BOARD_SIZE - 1) /\ (c = 0 \/ c = BOARD_SIZE - 1) THEN "MULT"
    ELSE IF r = 5 /\ c = 5 THEN "START"
    ELSE IF r = 2 /\ c = 8 THEN "OVER"
    ELSE IF r = 4 /\ c = 4 THEN "IF"
    ELSE IF r = 5 /\ c = 0 THEN "OVER"
    ELSE IF r = 6 /\ c = 6 THEN "OR"
    ELSE IF r = 5 /\ c = 10 THEN "IF"
    ELSE IF r = 8 /\ c = 2 THEN "OR"
    ELSE IF (r = 2 \/ r = 8) /\ (c = 2 \/ c = 8) THEN "IF"
    ELSE IF (r = 2 \/ r = 8) /\ c = 5 THEN "THEN"
    ELSE IF (c = 2 \/ c = 8) /\ r = 5 THEN "THEN"
    ELSE IF Abs(r - 5) = Abs(c - 5) /\ r # 5 /\ r # 0 /\ r # 10
        THEN (IF Abs(r - 5) = 1 THEN "OVER" ELSE "AND")
    ELSE IF (r = 1 \/ r = 9) /\ c = 5 THEN "PLUS"
    ELSE IF (c = 1 \/ c = 9) /\ r = 5 THEN "MINUS"
    ELSE IF (r = 0 \/ r = 10) /\ c = 5 THEN "OR"
    ELSE IF (c = 0 \/ c = 10) /\ r = 5 THEN "OR"
    ELSE "NONE"

generateBoard ==
    [r \in Coords |-> [c \in Coords |->
        [operator |-> OperatorAt(r, c), letter |-> NoLetter,
         isLocked |-> FALSE, isBlank |-> FALSE, turnPlaced |-> 0]]]

\* The cells of row r, and of column c, as the 1-based line the scanners walk.
Row(g, r) == [i \in 1 .. BOARD_SIZE |-> g[r][i - 1]]

Col(g, c) == [i \in 1 .. BOARD_SIZE |-> g[i - 1][c]]

hasLetter(cell) == cell.letter # NoLetter

-----------------------------------------------------------------------------
(* validatePlacementRules *)

\* 0. Isolation check
hasHorz(g, r, c) ==
    \/ (c > 0 /\ hasLetter(g[r][c - 1]))
    \/ (c < BOARD_SIZE - 1 /\ hasLetter(g[r][c + 1]))

hasVert(g, r, c) ==
    \/ (r > 0 /\ hasLetter(g[r - 1][c]))
    \/ (r < BOARD_SIZE - 1 /\ hasLetter(g[r + 1][c]))

\* (mutant) the isolation check skips locked cells
isolationOk_UnlockedOnly(g) ==
    \A r \in Coords, c \in Coords :
        (hasLetter(g[r][c]) /\ ~g[r][c].isLocked)
            => (hasHorz(g, r, c) \/ hasVert(g, r, c))

isolationOk(g) ==
    \A r \in Coords, c \in Coords :
        hasLetter(g[r][c]) => (hasHorz(g, r, c) \/ hasVert(g, r, c))

\* 1. Connectivity check (ACROSTIC)
hasLockedTiles(g) ==
    \E r \in Coords, c \in Coords : g[r][c].isLocked /\ hasLetter(g[r][c])

newTiles(g) ==
    {rc \in Coords \X Coords :
        hasLetter(g[rc[1]][rc[2]]) /\ ~g[rc[1]][rc[2]].isLocked}

neighbors(r, c) ==
    {n \in {<<r - 1, c>>, <<r + 1, c>>, <<r, c - 1>>, <<r, c + 1>>} :
        n[1] >= 0 /\ n[1] < BOARD_SIZE /\ n[2] >= 0 /\ n[2] < BOARD_SIZE}

isConnected(g) ==
    \E t \in newTiles(g) : \E n \in neighbors(t[1], t[2]) :
        hasLetter(g[n[1]][n[2]]) /\ g[n[1]][n[2]].isLocked

connectivityOk(g, pMode) ==
    (pMode = "ACROSTIC" /\ hasLockedTiles(g) /\ newTiles(g) # {})
        => isConnected(g)

\* The FIXED-mode loop over currentWordMeta: FALSE as soon as lockedRun > 1.
\* (mutant) lockedRun is not reset by an unlocked letter
RECURSIVE lockedRunOk_NoReset(_, _, _)
lockedRunOk_NoReset(meta, i, lockedRun) ==
    IF i > Len(meta) THEN TRUE
    ELSE IF meta[i]
        THEN (IF lockedRun + 1 > 1 THEN FALSE
              ELSE lockedRunOk_NoReset(meta, i + 1, lockedRun + 1))
        ELSE lockedRunOk_NoReset(meta, i + 1, lockedRun)

RECURSIVE lockedRunOk(_, _, _)
lockedRunOk(meta, i, lockedRun) ==
    IF i > Len(meta) THEN TRUE
    ELSE IF meta[i]
        THEN (IF lockedRun + 1 > 1 THEN FALSE
              ELSE lockedRunOk(meta, i + 1, lockedRun + 1))
        ELSE lockedRunOk(meta, i + 1, 0)

\* The body run for a finished word: dictionary, then the FIXED rule.
wordOk(currentWord, currentWordMeta, gMode, dict) ==
    IF Len(currentWord) > 1
    THEN /\ has(dict, currentWord)
         /\ (gMode = "FIXED" /\ (\E k \in 1 .. Len(currentWordMeta) :
                                     ~currentWordMeta[k]))
                => lockedRunOk(currentWordMeta, 1, 0)
    ELSE TRUE

\* (mutant) the word that ends on the last cell of the line is not checked
RECURSIVE checkLineFrom_NoTail(_, _, _, _, _, _)
checkLineFrom_NoTail(cells, i, currentWord, currentWordMeta, gMode, dict) ==
    IF i > Len(cells)
    THEN TRUE
    ELSE IF hasLetter(cells[i])
        THEN checkLineFrom_NoTail(cells, i + 1,
                 Append(currentWord, cells[i].letter),
                 Append(currentWordMeta, cells[i].isLocked), gMode, dict)
        ELSE /\ wordOk(currentWord, currentWordMeta, gMode, dict)
             /\ checkLineFrom_NoTail(cells, i + 1, <<>>, <<>>, gMode, dict)

RECURSIVE checkLineFrom(_, _, _, _, _, _)
checkLineFrom(cells, i, currentWord, currentWordMeta, gMode, dict) ==
    IF i > Len(cells)
    THEN wordOk(currentWord, currentWordMeta, gMode, dict)
    ELSE IF hasLetter(cells[i])
        THEN checkLineFrom(cells, i + 1, Append(currentWord, cells[i].letter),
                           Append(currentWordMeta, cells[i].isLocked), gMode, dict)
        ELSE /\ wordOk(currentWord, currentWordMeta, gMode, dict)
             /\ checkLineFrom(cells, i + 1, <<>>, <<>>, gMode, dict)

checkLine(cells, gMode, dict) == checkLineFrom(cells, 1, <<>>, <<>>, gMode, dict)

\* (mutant) the rules are applied without the test for a missing dictionary
validatePlacementRules_NoNullCheck(g, gMode, pMode, dict) ==
    /\ isolationOk(g)
    /\ connectivityOk(g, pMode)
    /\ \A r \in Coords : checkLine(Row(g, r), gMode, dict)
    /\ \A c \in Coords : checkLine(Col(g, c), gMode, dict)

validatePlacementRules(g, gMode, pMode, dict) ==
    IF dict.isNull THEN FALSE
    ELSE /\ isolationOk(g)
         /\ connectivityOk(g, pMode)
         /\ \A r \in Coords : checkLine(Row(g, r), gMode, dict)
         /\ \A c \in Coords : checkLine(Col(g, c), gMode, dict)

-----------------------------------------------------------------------------
(* resolveGridWithBlanks *)

\* JavaScript grids are objects: the solver writes letters into the grid it is
\* handed.  heap holds the caller's grid ("input") and the solver's copy
\* ("work"); a reference names one of the two.
\* (mutant) no copy is made: the solver works on the caller's grid
cloneGrid_Alias(heap) == [ref |-> "input", heap |-> heap]

cloneGrid(heap) == [ref |-> "work", heap |-> [heap EXCEPT !.work = heap.input]]

\* blankCoords: the '*' cells in row-major order (the two nested loops)
RECURSIVE blankCoordsInRow(_, _, _)
blankCoordsInRow(g, r, c) ==
    IF c >= BOARD_SIZE THEN <<>>
    ELSE IF g[r][c].letter = "*"
        THEN <<(<<r, c>>)>> \o blankCoordsInRow(g, r, c + 1)
        ELSE blankCoordsInRow(g, r, c + 1)

RECURSIVE blankCoordsFrom(_, _)
blankCoordsFrom(g, r) ==
    IF r >= BOARD_SIZE THEN <<>>
    ELSE blankCoordsInRow(g, r, 0) \o blankCoordsFrom(g, r + 1)

blankCoords(g) == blankCoordsFrom(g, 0)

setLetter(heap, ref, rc, letter) ==
    [heap EXCEPT ![ref][rc[1]][rc[2]].letter = letter]

RECURSIVE trySolve(_, _, _, _, _, _, _)
RECURSIVE tryLetters(_, _, _, _, _, _, _, _)
\* [found, heap]: found says a validating grid is in heap[ref]
trySolve(index, heap, ref, blanks, gMode, pMode, dict) ==
    IF index = Len(blanks)
    THEN [found |-> validatePlacementRules(heap[ref], gMode, pMode, dict),
          heap |-> heap]
    ELSE tryLetters(index, 1, heap, ref, blanks, gMode, pMode, dict)

tryLetters(index, i, heap, ref, blanks, gMode, pMode, dict) ==
    IF i > Len(alphabet)
    THEN [found |-> FALSE, heap |-> setLetter(heap, ref, blanks[index + 1], "*")]
    ELSE LET result == trySolve(index + 1,
                           setLetter(heap, ref, blanks[index + 1], alphabet[i]),
                           ref, blanks, gMode, pMode, dict)
         IN  IF result.found THEN result
             ELSE tryLetters(index, i + 1, result.heap, ref, blanks,
                             gMode, pMode, dict)

NullGrid == <<>>

\* [isNull, grid, input]: the returned grid (or null) and the caller's grid
\* object as the call leaves it.
resolveGridWithBlanks(g, gMode, pMode, dict) ==
    LET heap0 == [input |-> g, work |-> NullGrid]
        blanks == blankCoords(g)
    IN  IF dict.isNull THEN [isNull |-> TRUE, grid |-> NullGrid, input |-> g]
        ELSE IF Len(blanks) = 0
        THEN IF validatePlacementRules(g, gMode, pMode, dict)
             THEN [isNull |-> FALSE, grid |-> g, input |-> g]
             ELSE [isNull |-> TRUE, grid |-> NullGrid, input |-> g]
        ELSE LET cl == cloneGrid(heap0)
                 res == trySolve(0, cl.heap, cl.ref, blanks, gMode, pMode, dict)
             IN  IF res.found
                 THEN [isNull |-> FALSE, grid |-> res.heap[cl.ref],
                       input |-> res.heap.input]
                 ELSE [isNull |-> TRUE, grid |-> NullGrid,
                       input |-> res.heap.input]

-----------------------------------------------------------------------------
(* calculateScrabbleScore *)

\* (mutant) a blank scores the value of the letter it shows
getCellScore_LetterValue(cell) == LetterValue(cell.letter)

getCellScore(cell) == IF cell.isBlank THEN 0 ELSE LetterValue(cell.letter)

inBoard(r, c) == r >= 0 /\ r < BOARD_SIZE /\ c >= 0 /\ c < BOARD_SIZE

\* first loop of scan: walk back to the start of the run
RECURSIVE scanStart(_, _, _, _, _)
scanStart(g, currR, currC, dr, dc) ==
    IF inBoard(currR - dr, currC - dc) /\ hasLetter(g[currR - dr][currC - dc])
    THEN scanStart(g, currR - dr, currC - dc, dr, dc)
    ELSE <<currR, currC>>

\* second loop of scan: collect the cells of the run
RECURSIVE scanCells(_, _, _, _, _)
scanCells(g, currR, currC, dr, dc) ==
    IF inBoard(currR, currC) /\ hasLetter(g[currR][currC])
    THEN <<g[currR][currC]>> \o scanCells(g, currR + dr, currC + dc, dr, dc)
    ELSE <<>>

RECURSIVE sumCellScores(_, _)
sumCellScores(wordCells, i) ==
    IF i > Len(wordCells) THEN 0
    ELSE getCellScore(wordCells[i]) + sumCellScores(wordCells, i + 1)

\* (mutant) a run is added again for every new tile that lies on it
scan_CountAgain(g, acc, r, c, dr, dc) ==
    LET start == scanStart(g, r, c, dr, dc)
        wordCells == scanCells(g, start[1], start[2], dr, dc)
    IN  IF Len(wordCells) > 1
        THEN [acc EXCEPT !.totalScore = @ + sumCellScores(wordCells, 1)]
        ELSE acc

\* acc = [totalScore, uniqueWords]
scan(g, acc, r, c, dr, dc) ==
    LET start == scanStart(g, r, c, dr, dc)
        wordCells == scanCells(g, start[1], start[2], dr, dc)
        id == <<(IF dr = 0 THEN "H" ELSE "V"), start[1], start[2]>>
    IN  IF Len(wordCells) > 1 /\ id \notin acc.uniqueWords
        THEN [totalScore |-> acc.totalScore + sumCellScores(wordCells, 1),
              uniqueWords |-> acc.uniqueWords \cup {id}]
        ELSE acc

RECURSIVE scoreTiles(_, _, _, _)
scoreTiles(g, tiles, i, acc) ==
    IF i > Len(tiles) THEN acc
    ELSE LET t == tiles[i]
         IN  IF hasLetter(g[t[1]][t[2]])
             THEN scoreTiles(g, tiles, i + 1,
                      scan(g, scan(g, acc, t[1], t[2], 0, 1), t[1], t[2], 1, 0))
             ELSE scoreTiles(g, tiles, i + 1, acc)

calculateScrabbleScore(currentGrid, tiles) ==
    scoreTiles(currentGrid, tiles, 1,
               [totalScore |-> 0, uniqueWords |-> {}]).totalScore

-----------------------------------------------------------------------------
(* analyzeBoardLogic *)

\* A cell id `${r}-${c}` is the pair <<r, c>>.
neighborList(r, c) ==
    SelectSeq(<<(<<r - 1, c>>), (<<r + 1, c>>), (<<r, c - 1>>), (<<r, c + 1>>)>>,
              LAMBDA n : inBoard(n[1], n[2]))

\* One pass of the neighbour loop for the cell taken off the queue.
\* st = [q, visited, cellToCluster]
RECURSIVE visitNeighbors(_, _, _, _, _)
visitNeighbors(g, ns, i, id, st) ==
    IF i > Len(ns) THEN st
    ELSE LET n == ns[i]
         IN  IF hasLetter(g[n[1]][n[2]]) /\ n \notin st.visited
             THEN visitNeighbors(g, ns, i + 1, id,
                      [q |-> Append(st.q, n),
                       visited |-> st.visited \cup {n},
                       cellToCluster |-> st.cellToCluster @@ (n :> id)])
             ELSE visitNeighbors(g, ns, i + 1, id, st)

\* while (q.length)
RECURSIVE floodFill(_, _, _)
floodFill(g, id, st) ==
    IF Len(st.q) = 0 THEN st
    ELSE LET curr == Head(st.q)
         IN  floodFill(g, id,
                 visitNeighbors(g, neighborList(curr[1], curr[2]), 1, id,
                                [st EXCEPT !.q = Tail(st.q)]))

\* cl = [visited, cellToCluster, nextClusterId]
clusterCell(g, r, c, cl) ==
    IF hasLetter(g[r][c]) /\ <<r, c>> \notin cl.visited
    THEN LET filled == floodFill(g, cl.nextClusterId,
                           [q |-> <<(<<r, c>>)>>,
                            visited |-> cl.visited \cup {<<r, c>>},
                            cellToCluster |-> cl.cellToCluster @@
                                (<<r, c>> :> cl.nextClusterId)])
         IN  [visited |-> filled.visited,
              cellToCluster |-> filled.cellToCluster,
              nextClusterId |-> cl.nextClusterId + 1]
    ELSE cl

\* The cells of a set in row-major order.
RowMajor(rc) == rc[1] * BOARD_SIZE + rc[2]

RECURSIVE cellsInOrder(_)
cellsInOrder(cells) ==
    IF cells = {} THEN <<>>
    ELSE LET first == CHOOSE rc \in cells :
                          \A q \in cells : RowMajor(rc) <= RowMajor(q)
         IN  <<first>> \o cellsInOrder(cells \ {first})

\* The two for loops over r and c: they act on lettered cells only, so they
\* are run over the lettered cells in row-major order.
RECURSIVE clusterCells(_, _, _, _)
clusterCells(g, cells, i, cl) ==
    IF i > Len(cells) THEN cl
    ELSE clusterCells(g, cells, i + 1,
                      clusterCell(g, cells[i][1], cells[i][2], cl))

\* 1. Identify clusters (GO mode only)
identifyClusters(g, pMode) ==
    LET cl0 == [visited |-> {}, cellToCluster |-> <<>>, nextClusterId |-> 1]
        lettered == {rc \in Coords \X Coords : hasLetter(g[rc[1]][rc[2]])}
    IN  IF pMode = "GO" THEN clusterCells(g, cellsInOrder(lettered), 1, cl0)
        ELSE cl0

\* (mutant) every word is put in cluster 1
getClusterId_AlwaysOne(cellIds, cl, pMode) == 1

getClusterId(cellIds, cl, pMode) ==
    IF pMode = "ACROSTIC" THEN 1
    ELSE IF cellIds[1] \in DOMAIN cl.cellToCluster
        THEN cl.cellToCluster[cellIds[1]]
        ELSE 0

Max(a, b) == IF a > b THEN a ELSE b

\* The cells of a line with their ids.
RowCells(g, r) == [i \in 1 .. BOARD_SIZE |-> [cell |-> g[r][i - 1], id |-> <<r, i - 1>>]]

ColCells(g, c) == [i \in 1 .. BOARD_SIZE |-> [cell |-> g[i - 1][c], id |-> <<i - 1, c>>]]

\* The running word of scanLine.
emptyWord ==
    [currentWord |-> <<>>, currentScore |-> 0, currentMaxTurn |-> 0,
     currentOps |-> <<>>, cellIds |-> <<>>]

\* currentOps.forEach(o => rawOps.push({...o, word, wordScore, ...}))
opsOfWord(w, cId) ==
    [k \in 1 .. Len(w.currentOps) |->
        [op |-> w.currentOps[k].op, turn |-> w.currentOps[k].turn,
         id |-> w.currentOps[k].id, word |-> w.currentWord,
         wordScore |-> w.currentScore, lastModifiedTurn |-> w.currentMaxTurn,
         cellIds |-> w.cellIds, clusterId |-> cId]]

\* The block run when a word ends (inside the loop and after it).
\* acc = [rawOps, dataWords, allValidWords, visitedWords]
recordWord(acc, w, dict, cl, pMode) ==
    IF Len(w.currentWord) > 1
         /\ (IF dict.isNull THEN TRUE ELSE has(dict, w.currentWord))
         /\ w.cellIds \notin acc.visitedWords
    THEN LET cId == getClusterId(w.cellIds, cl, pMode)
         IN  [rawOps |->
                  IF Len(w.currentOps) = 0 THEN acc.rawOps
                  ELSE acc.rawOps \o opsOfWord(w, cId),
              dataWords |->
                  IF Len(w.currentOps) = 0
                  THEN Append(acc.dataWords,
                              [word |-> w.currentWord, clusterId |-> cId])
                  ELSE acc.dataWords,
              allValidWords |->
                  Append(acc.allValidWords,
                         [word |-> w.currentWord, score |-> w.currentScore,
                          turn |-> w.currentMaxTurn, cellIds |-> w.cellIds,
                          clusterId |-> cId]),
              visitedWords |-> acc.visitedWords \cup {w.cellIds}]
    ELSE acc

\* (mutant) the START cell is recorded like any other operator cell
extendWord_StartCounts(w, cell, id) ==
    [currentWord |-> Append(w.currentWord, cell.letter),
     currentScore |-> w.currentScore +
                      (IF cell.isBlank THEN 0 ELSE LetterValue(cell.letter)),
     currentMaxTurn |-> Max(w.currentMaxTurn, cell.turnPlaced),
     currentOps |-> IF cell.operator # "NONE"
                    THEN Append(w.currentOps,
                                [op |-> cell.operator, turn |-> cell.turnPlaced,
                                 id |-> id])
                    ELSE w.currentOps,
     cellIds |-> Append(w.cellIds, id)]

\* The branch of scanLine for a lettered cell.
extendWord(w, cell, id) ==
    [currentWord |-> Append(w.currentWord, cell.letter),
     currentScore |-> w.currentScore +
                      (IF cell.isBlank THEN 0 ELSE LetterValue(cell.letter)),
     currentMaxTurn |-> Max(w.currentMaxTurn, cell.turnPlaced),
     currentOps |-> IF cell.operator # "NONE" /\ cell.operator # "START"
                    THEN Append(w.currentOps,
                                [op |-> cell.operator, turn |-> cell.turnPlaced,
                                 id |-> id])
                    ELSE w.currentOps,
     cellIds |-> Append(w.cellIds, id)]

\* The loop of scanLine over one line: the words it ends, in order, each with
\* the values of currentWord, currentScore, currentMaxTurn, currentOps and
\* cellIds at its end (at an empty cell, or after the loop).
endedWord(w) == IF Len(w.currentWord) > 1 THEN <<w>> ELSE <<>>

RECURSIVE scanLineFrom(_, _, _)
scanLineFrom(cells, i, w) ==
    IF i > Len(cells) THEN endedWord(w)
    ELSE IF hasLetter(cells[i].cell)
        THEN scanLineFrom(cells, i + 1, extendWord(w, cells[i].cell, cells[i].id))
        ELSE endedWord(w) \o scanLineFrom(cells, i + 1, emptyWord)

scanLine(cells) == scanLineFrom(cells, 1, emptyWord)

\* grid.forEach(row => scanLine(row))
RECURSIVE scanRows(_, _)
scanRows(g, r) ==
    IF r >= BOARD_SIZE THEN <<>>
    ELSE scanLine(RowCells(g, r)) \o scanRows(g, r + 1)

\* for (let c = 0; c < BOARD_SIZE; c++) scanLine(col)
RECURSIVE scanCols(_, _)
scanCols(g, c) ==
    IF c >= BOARD_SIZE THEN <<>>
    ELSE scanLine(ColCells(g, c)) \o scanCols(g, c + 1)

\* The word-end blocks of all the scans, run in the order the words end.
RECURSIVE recordWords(_, _, _, _, _, _)
recordWords(ws, i, acc, dict, cl, pMode) ==
    IF i > Len(ws) THEN acc
    ELSE recordWords(ws, i + 1, recordWord(acc, ws[i], dict, cl, pMode),
                     dict, cl, pMode)

\* (mutant) the entries are left in the order the scans found them
sortByTurn_AsGiven(ops) == ops

\* Array.prototype.sort((a, b) => a.turn - b.turn): stable, ascending turn.
RECURSIVE insertByTurn(_, _)
insertByTurn(sorted, x) ==
    IF Len(sorted) = 0 THEN <<x>>
    ELSE IF sorted[Len(sorted)].turn <= x.turn THEN Append(sorted, x)
    ELSE Append(insertByTurn(SubSeq(sorted, 1, Len(sorted) - 1), x),
                sorted[Len(sorted)])

RECURSIVE sortByTurnFrom(_, _, _)
sortByTurnFrom(ops, i, sorted) ==
    IF i > Len(ops) THEN sorted
    ELSE sortByTurnFrom(ops, i + 1, insertByTurn(sorted, ops[i]))

sortByTurn(ops) == sortByTurnFrom(ops, 1, <<>>)

\* Array.prototype.find as a list of at most one element
findFirst(ops, kinds) ==
    LET hits == SelectSeq(ops, LAMBDA x : x.op \in kinds)
    IN  IF Len(hits) = 0 THEN <<>> ELSE <<hits[1]>>

filterOps(ops, kinds) == SelectSeq(ops, LAMBDA x : x.op \in kinds)

\* (mutant) the first THEN is pushed after the AND and PLUS entries
compileOps_ThenAfterAdditions(unsortedOps) ==
    LET clusterOps == sortByTurn(unsortedOps)
    IN  findFirst(clusterOps, {"IF"})
        \o sortByTurn(filterOps(clusterOps, {"OR"}))
        \o sortByTurn(filterOps(clusterOps, {"AND", "PLUS"}))
        \o findFirst(clusterOps, {"THEN"})
        \o sortByTurn(filterOps(clusterOps, {"MINUS", "MULT", "OVER"}))

\* The five rules that assemble one cluster's chain.
compileOps(unsortedOps) ==
    LET clusterOps == sortByTurn(unsortedOps)
    IN  findFirst(clusterOps, {"IF"})
        \o sortByTurn(filterOps(clusterOps, {"OR"}))
        \o findFirst(clusterOps, {"THEN"})
        \o sortByTurn(filterOps(clusterOps, {"AND", "PLUS"}))
        \o sortByTurn(filterOps(clusterOps, {"MINUS", "MULT", "OVER"}))

RECURSIVE buildChains(_, _, _, _)
buildChains(i, maxCluster, ops, dataWords) ==
    IF i > maxCluster THEN <<>>
    ELSE LET clusterOps == SelectSeq(ops, LAMBDA x : x.clusterId = i)
             clusterData == SelectSeq(dataWords, LAMBDA x : x.clusterId = i)
             rest == buildChains(i + 1, maxCluster, ops, dataWords)
         IN  IF Len(clusterOps) = 0 /\ Len(clusterData) = 0 THEN rest
             ELSE <<[id |-> i, compiledOps |-> compileOps(clusterOps),
                     dataWords |-> [k \in 1 .. Len(clusterData) |->
                                       clusterData[k].word]]>> \o rest

\* The lists rawOps, dataWords and allValidWords after the scans of all rows
\* and all columns.
scanBoard(g, dict, pMode) ==
    recordWords(scanRows(g, 0) \o scanCols(g, 0), 1,
                [rawOps |-> <<>>, dataWords |-> <<>>, allValidWords |-> <<>>,
                 visitedWords |-> {}],
                dict, identifyClusters(g, pMode), pMode)

\* [chains, allValidWords]
analyzeBoardLogic(g, dict, pMode) ==
    LET cl == identifyClusters(g, pMode)
        acc == scanBoard(g, dict, pMode)
        maxCluster == IF pMode = "ACROSTIC" THEN 1 ELSE cl.nextClusterId - 1
    IN  [chains |-> buildChains(1, maxCluster, acc.rawOps, acc.dataWords),
         allValidWords |-> acc.allValidWords]

-----------------------------------------------------------------------------
(* calculateChainScore *)

isTrigger(x) == x.op = "IF" \/ x.op = "OR"

\* (mutant) OVER divides whatever the word score, and a score of 0 gives 0
applyAction_OverZero(st, action) ==
    IF action.op = "THEN"
    THEN [cascadeOutcome |-> action.wordScore, targetEstablished |-> TRUE]
    ELSE IF ~st.targetEstablished THEN st
    ELSE IF action.op \in {"PLUS", "AND"}
        THEN [st EXCEPT !.cascadeOutcome = @ + action.wordScore]
    ELSE IF action.op = "MINUS"
        THEN [st EXCEPT !.cascadeOutcome = @ - action.wordScore]
    ELSE IF action.op = "MULT"
        THEN [st EXCEPT !.cascadeOutcome = @ * action.wordScore]
    ELSE IF action.op = "OVER"
        THEN (IF action.wordScore # 0
              THEN [st EXCEPT !.cascadeOutcome = @ \div action.wordScore]
              ELSE [st EXCEPT !.cascadeOutcome = 0])
    ELSE st

\* The fold over the actions: st = [cascadeOutcome, targetEstablished]
applyAction(st, action) ==
    IF action.op = "THEN"
    THEN [cascadeOutcome |-> action.wordScore, targetEstablished |-> TRUE]
    ELSE IF ~st.targetEstablished THEN st
    ELSE IF action.op \in {"PLUS", "AND"}
        THEN [st EXCEPT !.cascadeOutcome = @ + action.wordScore]
    ELSE IF action.op = "MINUS"
        THEN [st EXCEPT !.cascadeOutcome = @ - action.wordScore]
    ELSE IF action.op = "MULT"
        THEN [st EXCEPT !.cascadeOutcome = @ * action.wordScore]
    ELSE IF action.op = "OVER"
        THEN (IF action.wordScore # 0
              THEN [st EXCEPT !.cascadeOutcome = @ \div action.wordScore]
              ELSE st)
    ELSE st

RECURSIVE foldActions(_, _, _)
foldActions(actions, i, st) ==
    IF i > Len(actions) THEN st
    ELSE foldActions(actions, i + 1, applyAction(st, actions[i]))

cellIdsOf(ops) == UNION {{ops[k].cellIds[j] : j \in 1 .. Len(ops[k].cellIds)} :
                           k \in 1 .. Len(ops)}

\* (mutant) a chain without THEN is not skipped
chainScore_NoThenCheck(chain, allValidWords, currentTurn) ==
    LET triggers == SelectSeq(chain.compiledOps, isTrigger)
        actions == SelectSeq(chain.compiledOps, LAMBDA x : ~isTrigger(x))
        folded == foldActions(actions, 1,
                      [cascadeOutcome |-> 0, targetEstablished |-> FALSE])
        newlyFormedWords ==
            SelectSeq(allValidWords,
                      LAMBDA w : w.turn = currentTurn /\ w.clusterId = chain.id)
        matches == {<<n, t>> \in (1 .. Len(newlyFormedWords)) \X (1 .. Len(triggers)) :
                        newlyFormedWords[n].word = triggers[t].word}
    IN  IF Len(triggers) = 0 \/ Len(actions) = 0
        THEN [score |-> 0, activeCellIds |-> {}]
        ELSE [score |-> Cardinality(matches) * folded.cascadeOutcome,
              activeCellIds |->
                  IF matches = {} THEN {}
                  ELSE cellIdsOf(chain.compiledOps) \cup
                       UNION {{newlyFormedWords[m[1]].cellIds[j] :
                                  j \in 1 .. Len(newlyFormedWords[m[1]].cellIds)} :
                              m \in matches}]

\* (mutant) a chain pays once, however many words match
chainScore_OncePerChain(chain, allValidWords, currentTurn) ==
    LET triggers == SelectSeq(chain.compiledOps, isTrigger)
        actions == SelectSeq(chain.compiledOps, LAMBDA x : ~isTrigger(x))
        folded == foldActions(actions, 1,
                      [cascadeOutcome |-> 0, targetEstablished |-> FALSE])
        newlyFormedWords ==
            SelectSeq(allValidWords,
                      LAMBDA w : w.turn = currentTurn /\ w.clusterId = chain.id)
        matches == {<<n, t>> \in (1 .. Len(newlyFormedWords)) \X (1 .. Len(triggers)) :
                        newlyFormedWords[n].word = triggers[t].word}
    IN  IF Len(triggers) = 0 \/ Len(actions) = 0 \/ ~folded.targetEstablished
        THEN [score |-> 0, activeCellIds |-> {}]
        ELSE [score |-> IF matches = {} THEN 0 ELSE folded.cascadeOutcome,
              activeCellIds |-> {}]

\* One chain's share: [score, activeCellIds]
chainScore(chain, allValidWords, currentTurn) ==
    LET triggers == SelectSeq(chain.compiledOps, isTrigger)
        actions == SelectSeq(chain.compiledOps, LAMBDA x : ~isTrigger(x))
        folded == foldActions(actions, 1,
                      [cascadeOutcome |-> 0, targetEstablished |-> FALSE])
        newlyFormedWords ==
            SelectSeq(allValidWords,
                      LAMBDA w : w.turn = currentTurn /\ w.clusterId = chain.id)
        matches == {<<n, t>> \in (1 .. Len(newlyFormedWords)) \X (1 .. Len(triggers)) :
                        newlyFormedWords[n].word = triggers[t].word}
    IN  IF Len(triggers) = 0 \/ Len(actions) = 0 \/ ~folded.targetEstablished
        THEN [score |-> 0, activeCellIds |-> {}]
        ELSE [score |-> Cardinality(matches) * folded.cascadeOutcome,
              activeCellIds |->
                  IF matches = {} THEN {}
                  ELSE cellIdsOf(chain.compiledOps) \cup
                       UNION {{newlyFormedWords[m[1]].cellIds[j] :
                                  j \in 1 .. Len(newlyFormedWords[m[1]].cellIds)} :
                              m \in matches}]

RECURSIVE sumChains(_, _, _, _)
sumChains(chains, i, allValidWords, currentTurn) ==
    IF i > Len(chains) THEN [score |-> 0, activeCellIds |-> {}]
    ELSE LET one == chainScore(chains[i], allValidWords, currentTurn)
             rest == sumChains(chains, i + 1, allValidWords, currentTurn)
         IN  [score |-> one.score + rest.score,
              activeCellIds |-> one.activeCellIds \cup rest.activeCellIds]

calculateChainScore(chains, allValidWords, currentTurn) ==
    sumChains(chains, 1, allValidWords, currentTurn)

-----------------------------------------------------------------------------
(* Input boards of the rule functions: letters laid on a corner of the      *)
(* generated board.                                                         *)

MaxLetters == 4

Region == {<<9, 8>>, <<9, 9>>, <<9, 10>>, <<10, 8>>, <<10, 9>>, <<10, 10>>}

Tile(letter, locked, blank) ==
    [letter |-> letter, isLocked |-> locked, isBlank |-> blank]

NoTile == Tile(NoLetter, FALSE, FALSE)

PlainTiles == {Tile(l, k, FALSE) : l \in {"A", "T"}, k \in BOOLEAN}

\* The board that holds tile lay[rc] on every cell rc of Region.
Overlay(lay) ==
    [r \in Coords |-> [c \in Coords |->
        IF <<r, c>> \in Region /\ lay[<<r, c>>].letter # NoLetter
        THEN [operator |-> OperatorAt(r, c), letter |-> lay[<<r, c>>].letter,
              isLocked |-> lay[<<r, c>>].isLocked,
              isBlank |-> lay[<<r, c>>].isBlank,
              turnPlaced |-> IF lay[<<r, c>>].isLocked THEN 1 ELSE 0]
        ELSE generateBoard[r][c]]]

\* The ways to lay at most n of the given tiles on Region.
Lays(tiles, n) ==
    {lay \in [Region -> tiles \cup {NoTile}] :
        Cardinality({rc \in Region : lay[rc] # NoTile}) <= n}

Words ==
    {<<"A", "T">>, <<"T", "A">>, <<"T", "A", "T">>, <<"A", "T", "T">>,
     <<"A", "H">>, <<"H", "A">>, <<"H", "A", "T">>}

idle == [fn |-> "none"]

\* No P2P session and no opponent search under way.
NoSession ==
    /\ peer = <<>>
    /\ inbox = <<>>
    /\ timer = <<>>
    /\ search = [pc |-> "idle"]
    /\ snapshots = 0

InitInputs ==
    /\ isLoadingDict = FALSE
    /\ tileBag = <<>>
    /\ playerHand = <<>>
    /\ cpuHand = <<>>
    /\ turnMoves = <<>>
    /\ isCpuTurn = FALSE
    /\ turnCount = 2
    /\ playerScore = 0
    /\ cpuScore = 0
    /\ playMode = "VS_CPU"
    /\ connRef = FALSE
    /\ sent = <<>>
    /\ NoSession
    /\ rawOps = <<>>
    /\ call = idle
    /\ out = FALSE

InitValidate ==
    /\ \E lay \in Lays(PlainTiles, MaxLetters) : grid = Overlay(lay)
    /\ gameMode \in {"DYNAMIC", "FIXED"}
    /\ placementMode \in {"ACROSTIC", "GO"}
    /\ dictionary \in {WordSet(Words), null}
    /\ InitInputs

Validate ==
    /\ call = idle
    /\ call' = [fn |-> "validatePlacementRules"]
    /\ out' = validatePlacementRules(grid, gameMode, placementMode, dictionary)
    /\ UNCHANGED gameVars

NextValidate == Validate

SpecValidate == InitValidate /\ [][NextValidate]_vars

-----------------------------------------------------------------------------
(* What the rules say, stated over the board itself *)

\* The lines of a board: <<"H", r>> is row r, <<"V", c>> is column c.
Lines == {"H", "V"} \X Coords

CellOf(g, line, k) == IF line[1] = "H" THEN g[line[2]][k] ELSE g[k][line[2]]

\* A maximal run of two or more lettered cells, <<line, first, last>>: it
\* starts on a lettered cell with no letter before it and a letter after it,
\* and ends on the last cell of the unbroken stretch of letters.
RunEnd(g, line, a) ==
    CHOOSE b \in a .. (BOARD_SIZE - 1) :
        /\ \A k \in a .. b : hasLetter(CellOf(g, line, k))
        /\ (b = BOARD_SIZE - 1 \/ ~hasLetter(CellOf(g, line, b + 1)))

Runs(g) ==
    {<<s[1], s[2], RunEnd(g, s[1], s[2])>> :
        s \in {t \in Lines \X Coords :
                  /\ hasLetter(CellOf(g, t[1], t[2]))
                  /\ (t[2] = 0 \/ ~hasLetter(CellOf(g, t[1], t[2] - 1)))
                  /\ t[2] < BOARD_SIZE - 1
                  /\ hasLetter(CellOf(g, t[1], t[2] + 1))}}

RunWord(g, run) ==
    [i \in 1 .. (run[3] - run[2] + 1) |-> CellOf(g, run[1], run[2] + i - 1).letter]

RunCells(run) ==
    {IF run[1][1] = "H" THEN <<run[1][2], k>> ELSE <<k, run[1][2]>> :
        k \in run[2] .. run[3]}

Lettered(g) == {rc \in Coords \X Coords : hasLetter(g[rc[1]][rc[2]])}

Adjacent(p, q) == Abs(p[1] - q[1]) + Abs(p[2] - q[2]) = 1

Isolated(g, rc) ==
    /\ rc \in Lettered(g)
    /\ ~\E q \in Lettered(g) : Adjacent(rc, q)

LockedCells(g) == {rc \in Lettered(g) : g[rc[1]][rc[2]].isLocked}

UnlockedCells(g) == Lettered(g) \ LockedCells(g)

\* The lettered cells joined to a cell of `seen` by orthogonal steps.
RECURSIVE Joined(_, _)
Joined(g, seen) ==
    LET more == {q \in Lettered(g) \ seen : \E p \in seen : Adjacent(p, q)}
    IN  IF more = {} THEN seen ELSE Joined(g, seen \cup more)

\* A run with an unlocked letter and two consecutive locked letters.
BadRun(g, run) ==
    /\ \E k \in run[2] .. run[3] : ~CellOf(g, run[1], k).isLocked
    /\ \E k \in run[2] .. (run[3] - 1) :
          CellOf(g, run[1], k).isLocked /\ CellOf(g, run[1], k + 1).isLocked

validated == call.fn = "validatePlacementRules"

\* C1: a board validatePlacementRules accepts has every maximal run of two or
\* more lettered cells, in every row and column, in the dictionary; this holds
\* in both game modes and both placement modes.
C1_RunsAreWords ==
    (validated /\ out) =>
        /\ ~dictionary.isNull
        /\ \A run \in Runs(grid) : RunWord(grid, run) \in dictionary.words

\* An accepted board that holds a row run and a column run.
C1_Witness ==
    /\ validated /\ out
    /\ \E run \in Runs(grid) : run[1][1] = "H"
    /\ \E run \in Runs(grid) : run[1][1] = "V"

\* C2: a board on which some lettered cell, locked or not, has no lettered
\* orthogonal neighbour is rejected, whatever the modes and the dictionary.
C2_IsolatedRejected ==
    (validated /\ \E rc \in Lettered(grid) : Isolated(grid, rc)) => ~out

\* A rejected board whose only fault is a locked letter standing alone.
C2_Witness ==
    /\ validated /\ ~out /\ ~dictionary.isNull
    /\ \E rc \in LockedCells(grid) : Isolated(grid, rc)
    /\ Runs(grid) # {}
    /\ \A run \in Runs(grid) : RunWord(grid, run) \in dictionary.words
    /\ UnlockedCells(grid) = {}

\* C3: in ACROSTIC mode, on a board that holds a locked letter, an accepted
\* board has every unlocked letter joined to a locked letter.
C3_EveryNewTileJoined ==
    (validated /\ out /\ placementMode = "ACROSTIC" /\ LockedCells(grid) # {})
        => UnlockedCells(grid) \subseteq Joined(grid, LockedCells(grid))

\* C4: in FIXED mode a board is accepted exactly when it passes the other
\* rules and no run holds an unlocked letter beside two consecutive locked
\* letters; in DYNAMIC mode the locked-run rule plays no part.
C4_LockedRunRule ==
    validated =>
        LET others == /\ ~dictionary.isNull
                      /\ ~\E rc \in Lettered(grid) : Isolated(grid, rc)
                      /\ connectivityOk(grid, placementMode)
                      /\ \A run \in Runs(grid) :
                            RunWord(grid, run) \in dictionary.words
        IN  out = (others /\ (gameMode = "FIXED" =>
                                 ~\E run \in Runs(grid) : BadRun(grid, run)))

\* FIXED mode accepts a word whose two locked letters are single hooks
\* around an unlocked one.
C4_Witness ==
    /\ validated /\ out /\ gameMode = "FIXED"
    /\ \E run \in Runs(grid) :
          /\ run[3] - run[2] = 2
          /\ CellOf(grid, run[1], run[2]).isLocked
          /\ ~CellOf(grid, run[1], run[2] + 1).isLocked
          /\ CellOf(grid, run[1], run[3]).isLocked

-----------------------------------------------------------------------------
(* resolveGridWithBlanks applied to boards that hold wildcard tiles *)

MaxResolveLetters == 3

BlankTile == Tile("*", FALSE, TRUE)

\* The tiles laid beside the wildcards.
ResolveTiles == {Tile("A", FALSE, FALSE), Tile("T", TRUE, FALSE)}

\* The cells a wildcard may lie on.  A second wildcard comes only beside the
\* first, with at most one more tile: the solver tries 26 letters per
\* wildcard, so these boards are kept few.
BlankSpots == {<<10, 9>>, <<10, 10>>}

ResolveLays(n) ==
    {lay \in Lays(ResolveTiles \cup {BlankTile}, n) :
        /\ \A rc \in Region : lay[rc] = BlankTile => rc \in BlankSpots
        /\ lay[<<10, 10>>] = BlankTile =>
              /\ lay[<<10, 9>>] = BlankTile
              /\ Cardinality({rc \in Region : lay[rc] # NoTile}) <= 3}

InitResolve ==
    /\ \E lay \in ResolveLays(MaxResolveLetters) : grid = Overlay(lay)
    /\ gameMode \in {"DYNAMIC", "FIXED"}
    /\ placementMode \in {"ACROSTIC", "GO"}
    /\ dictionary \in {WordSet(Words), null}
    /\ InitInputs

Resolve ==
    /\ call = idle
    /\ call' = [fn |-> "resolveGridWithBlanks"]
    /\ out' = resolveGridWithBlanks(grid, gameMode, placementMode, dictionary)
    /\ UNCHANGED gameVars

NextResolve == Resolve

SpecResolve == InitResolve /\ [][NextResolve]_vars

resolved == call.fn = "resolveGridWithBlanks"

StarCells(g) == {rc \in Lettered(g) : g[rc[1]][rc[2]].letter = "*"}

\* An assignment gives every '*' cell the index of a letter of the alphabet.
Assignments(g) == [StarCells(g) -> 1 .. Len(alphabet)]

\* The board g with the letter of every '*' cell replaced as f says.
RECURSIVE AssignCells(_, _, _)
AssignCells(g, f, cells) ==
    IF cells = {} THEN g
    ELSE LET rc == CHOOSE x \in cells : TRUE
         IN  AssignCells([g EXCEPT ![rc[1]][rc[2]].letter = alphabet[f[rc]]],
                         f, cells \ {rc})

Assign(g, f) == AssignCells(g, f, DOMAIN f)

\* f comes before h: at the first '*' cell where they differ, in row-major
\* order, f has the earlier letter.
LexLess(f, h) ==
    \E rc \in DOMAIN f :
        /\ f[rc] < h[rc]
        /\ \A q \in DOMAIN f : RowMajor(q) < RowMajor(rc) => f[q] = h[q]

Validates(g, f) ==
    validatePlacementRules(Assign(g, f), gameMode, placementMode, dictionary)

\* The assignment a resolved board shows on the '*' cells of g.
Shown(g, resolvedGrid) ==
    [rc \in StarCells(g) |->
        CHOOSE i \in 1 .. Len(alphabet) :
            alphabet[i] = resolvedGrid[rc[1]][rc[2]].letter]

\* C7: resolveGridWithBlanks returns the board of the lexicographically first
\* assignment of A..Z to the '*' cells (row-major) that validates, or null if
\* none does; the returned board has no '*', validates, differs from the input
\* only in the letters of '*' cells, and the input grid is left as it was.
C7_FirstValidAssignment ==
    resolved =>
        /\ out.input = grid
        /\ out.isNull => \A f \in Assignments(grid) : ~Validates(grid, f)
        /\ ~out.isNull =>
              /\ StarCells(out.grid) = {}
              /\ \A rc \in Lettered(out.grid) :
                    out.grid[rc[1]][rc[2]].letter \in
                        {alphabet[i] : i \in 1 .. Len(alphabet)}
              /\ validatePlacementRules(out.grid, gameMode, placementMode,
                                        dictionary)
              /\ out.grid = Assign(grid, Shown(grid, out.grid))
              /\ \A h \in Assignments(grid) :
                    LexLess(h, Shown(grid, out.grid)) => ~Validates(grid, h)

\* Two wildcards resolved where more than one assignment validates.
C7_Witness ==
    /\ resolved /\ ~out.isNull
    /\ Cardinality(StarCells(grid)) = 2
    /\ \E h \in Assignments(grid) :
          LexLess(Shown(grid, out.grid), h) /\ Validates(grid, h)

-----------------------------------------------------------------------------
(* calculateScrabbleScore and the word scores of analyzeBoardLogic, applied
   to boards that hold this turn's tiles (unlocked, listed in turnMoves),
   earlier tiles (locked) and blank tiles showing a letter. *)

MaxScoreLetters == 3

ScoreTiles ==
    {Tile("A", FALSE, FALSE), Tile("H", FALSE, TRUE), Tile("T", TRUE, FALSE),
     Tile("H", TRUE, FALSE), Tile("A", TRUE, TRUE)}

\* turnMoves of a board whose unlocked letters were placed this turn.
movesOf(g) ==
    LET cells == cellsInOrder(newTiles(g))
    IN  [k \in 1 .. Len(cells) |->
            [r |-> cells[k][1], c |-> cells[k][2],
             letter |-> g[cells[k][1]][cells[k][2]].letter]]

\* turnMoves.map(m => ({r: m.r, c: m.c}))
moveCoords(moves) == [k \in 1 .. Len(moves) |-> <<moves[k].r, moves[k].c>>]

InitScore ==
    /\ \E lay \in Lays(ScoreTiles, MaxScoreLetters) : grid = Overlay(lay)
    /\ gameMode = "DYNAMIC"
    /\ placementMode \in {"ACROSTIC", "GO"}
    /\ dictionary \in {WordSet(Words), null}
    /\ isLoadingDict = FALSE
    /\ tileBag = <<>>
    /\ playerHand = <<>>
    /\ cpuHand = <<>>
    /\ turnMoves = movesOf(grid)
    /\ isCpuTurn = FALSE
    /\ turnCount = 2
    /\ playerScore = 0
    /\ cpuScore = 0
    /\ playMode = "VS_CPU"
    /\ connRef = FALSE
    /\ sent = <<>>
    /\ NoSession
    /\ rawOps = <<>>
    /\ call = idle
    /\ out = FALSE

Score ==
    /\ call = idle
    /\ call' = [fn |-> "calculateScrabbleScore"]
    /\ out' = calculateScrabbleScore(grid, moveCoords(turnMoves))
    /\ UNCHANGED gameVars

Analyze ==
    /\ call = idle
    /\ call' = [fn |-> "analyzeBoardLogic"]
    /\ out' = analyzeBoardLogic(grid, dictionary, placementMode)
    /\ UNCHANGED gameVars

NextScore == Score \/ Analyze

SpecScore == InitScore /\ [][NextScore]_vars

scored == call.fn = "calculateScrabbleScore"

analyzed == call.fn = "analyzeBoardLogic"

NewCells == {<<turnMoves[k].r, turnMoves[k].c>> : k \in 1 .. Len(turnMoves)}

\* What one cell is worth: nothing for a blank, its letter's value otherwise.
CellWorth(cell) == IF cell.isBlank THEN 0 ELSE LETTER_VALUES[cell.letter]

RECURSIVE RunWorthFrom(_, _, _)
RunWorthFrom(g, run, k) ==
    IF k > run[3] THEN 0
    ELSE CellWorth(CellOf(g, run[1], k)) + RunWorthFrom(g, run, k + 1)

RunWorth(g, run) == RunWorthFrom(g, run, run[2])

RECURSIVE SumRunWorth(_, _)
SumRunWorth(g, runs) ==
    IF runs = {} THEN 0
    ELSE LET run == CHOOSE x \in runs : TRUE
         IN  RunWorth(g, run) + SumRunWorth(g, runs \ {run})

NewRuns(g) == {run \in Runs(g) : RunCells(run) \cap NewCells # {}}

\* C8: calculateScrabbleScore is the sum, over the distinct maximal horizontal
\* and vertical runs of more than one letter that pass through at least one
\* newly placed cell, of the scores of all cells of the run; a run is counted
\* once however many new cells it holds, and a cell where two such runs cross
\* is counted in each.
C8_ScoreIsSumOverNewRuns ==
    scored => out = SumRunWorth(grid, NewRuns(grid))

\* Two counted runs cross on a cell that is worth points, and one of them
\* holds two new cells.
C8_Witness ==
    /\ scored
    /\ \E run1 \in NewRuns(grid), run2 \in NewRuns(grid) :
          /\ run1 # run2
          /\ \E rc \in RunCells(run1) \cap RunCells(run2) :
                CellWorth(grid[rc[1]][rc[2]]) > 0
          /\ Cardinality(RunCells(run1) \cap NewCells) >= 2
    /\ out = SumRunWorth(grid, NewRuns(grid))

BlankCells(g) == {rc \in Lettered(g) : g[rc[1]][rc[2]].isBlank}

\* Letters a blank may be made to stand for: their values (1 and 10) differ
\* from each other, and one of them from the value of any letter on the board.
BlankLetters == {"T", "Q"}

Relettered(g, rc, letter) == [g EXCEPT ![rc[1]][rc[2]].letter = letter]

\* The scores of the words of both lists that lie on the same cells agree.
SameWordScores(words1, words2) ==
    \A i \in 1 .. Len(words1), j \in 1 .. Len(words2) :
        words1[i].cellIds = words2[j].cellIds =>
            words1[i].score = words2[j].score

\* C9: changing the letter a blank (isBlank) cell stands for changes neither
\* calculateScrabbleScore nor the score analyzeBoardLogic gives any word.
C9_BlankInvariance ==
    /\ scored =>
          \A rc \in BlankCells(grid), letter \in BlankLetters :
              calculateScrabbleScore(Relettered(grid, rc, letter),
                                     moveCoords(turnMoves)) = out
    /\ analyzed =>
          \A rc \in BlankCells(grid), letter \in BlankLetters :
              LET other == analyzeBoardLogic(Relettered(grid, rc, letter),
                                             dictionary, placementMode)
              IN  SameWordScores(out.allValidWords, other.allValidWords)

\* A recorded word through a blank and a letter that scores, which is still a
\* recorded word when the blank stands for a letter of another value.
C9_Witness ==
    /\ analyzed
    /\ \E rc \in BlankCells(grid), letter \in BlankLetters :
          /\ LETTER_VALUES[letter] # LETTER_VALUES[grid[rc[1]][rc[2]].letter]
          /\ LET other == analyzeBoardLogic(Relettered(grid, rc, letter),
                                            dictionary, placementMode).allValidWords
             IN  \E i \in 1 .. Len(out.allValidWords), j \in 1 .. Len(other) :
                    /\ out.allValidWords[i].cellIds = other[j].cellIds
                    /\ \E k \in 1 .. Len(other[j].cellIds) :
                          other[j].cellIds[k] = rc
                    /\ out.allValidWords[i].score > 0
                    /\ out.allValidWords[i].word # other[j].word

-----------------------------------------------------------------------------
(* Chain assembly: the loop over clusters of analyzeBoardLogic, applied to
   lists of operator entries as the scans leave them in rawOps. *)

MaxOps == 3

MaxOpTurn == 2

ChainOperators == {"IF", "THEN", "AND", "OR", "PLUS", "MINUS", "MULT", "OVER"}

\* The k-th entry of rawOps: it stands on its own cell <<0, k>> of cluster 1.
RawOp(op, turn, k) ==
    [op |-> op, turn |-> turn, id |-> <<0, k>>, word |-> <<>>, wordScore |-> 0,
     lastModifiedTurn |-> turn, cellIds |-> <<(<<0, k>>)>>, clusterId |-> 1]

RECURSIVE RawOpListsOfLen(_)
RawOpListsOfLen(n) ==
    IF n = 0 THEN {<<>>}
    ELSE {Append(s, RawOp(x[1], x[2], n)) :
             s \in RawOpListsOfLen(n - 1),
             x \in ChainOperators \X (0 .. MaxOpTurn)}

\* IF@1, OR@3, OR@2, THEN@4, AND@6, PLUS@5, MULT@7
ExampleOps ==
    <<RawOp("IF", 1, 1), RawOp("OR", 3, 2), RawOp("OR", 2, 3),
      RawOp("THEN", 4, 4), RawOp("AND", 6, 5), RawOp("PLUS", 5, 6),
      RawOp("MULT", 7, 7)>>

\* The board is still the empty array the component starts with.
InitChain ==
    /\ \/ rawOps \in {<<>>, ExampleOps}
       \/ \E n \in 1 .. MaxOps :
             \E s \in RawOpListsOfLen(n - 1),
                x \in ChainOperators \X (0 .. MaxOpTurn) :
                 rawOps = Append(s, RawOp(x[1], x[2], n))
    /\ grid = <<>>
    /\ gameMode = "DYNAMIC"
    /\ placementMode = "ACROSTIC"
    /\ dictionary = null
    /\ isLoadingDict = TRUE
    /\ tileBag = <<>>
    /\ playerHand = <<>>
    /\ cpuHand = <<>>
    /\ turnMoves = <<>>
    /\ isCpuTurn = FALSE
    /\ turnCount = 1
    /\ playerScore = 0
    /\ cpuScore = 0
    /\ playMode = "VS_CPU"
    /\ connRef = FALSE
    /\ sent = <<>>
    /\ NoSession
    /\ call = idle
    /\ out = FALSE

\* for (let i = 1; i <= maxCluster; i++) with maxCluster = 1 (ACROSTIC)
Compile ==
    /\ call = idle
    /\ call' = [fn |-> "buildChains"]
    /\ out' = buildChains(1, 1, rawOps, <<>>)
    /\ UNCHANGED gameVars

NextChain == Compile

SpecChain == InitChain /\ [][NextChain]_vars

compiled == call.fn = "buildChains"

OfKind(ops, kinds) == {ops[k] : k \in {j \in 1 .. Len(ops) : ops[j].op \in kinds}}

Ascending(s) == \A k \in 1 .. (Len(s) - 1) : s[k].turn <= s[k + 1].turn

\* s lists every entry of ops of the given kinds once, in ascending turn.
AllInTurnOrder(s, ops, kinds) ==
    /\ Len(s) = Cardinality(OfKind(ops, kinds))
    /\ {s[k] : k \in 1 .. Len(s)} = OfKind(ops, kinds)
    /\ Ascending(s)

\* s is the entry of ops of that kind of the earliest turn, if there is one.
EarliestOnly(s, ops, kind) ==
    IF OfKind(ops, {kind}) = {} THEN s = <<>>
    ELSE /\ Len(s) = 1
         /\ s[1] \in OfKind(ops, {kind})
         /\ \A e \in OfKind(ops, {kind}) : s[1].turn <= e.turn

Segment(s, from, n) == SubSeq(s, from + 1, from + n)

OpTurns(s) == [k \in 1 .. Len(s) |-> <<s[k].op, s[k].turn>>]

-----------------------------------------------------------------------------
(* tileSystem.ts *)

HAND_SIZE == 7

Min(a, b) == IF a < b THEN a ELSE b

\* (mutant) the draw leaves the bag as it was
drawTiles_BagKept(currentHand, bag) ==
    LET needed == HAND_SIZE - Len(currentHand)
    IN  IF needed <= 0 \/ Len(bag) = 0
        THEN [hand |-> currentHand, bag |-> bag]
        ELSE [hand |-> currentHand \o SubSeq(bag, 1, Min(needed, Len(bag))),
              bag |-> SubSeq(bag, Min(needed, Len(bag)), Len(bag))]

\* [hand, bag]
drawTiles(currentHand, bag) ==
    LET needed == HAND_SIZE - Len(currentHand)
    IN  IF needed <= 0 \/ Len(bag) = 0
        THEN [hand |-> currentHand, bag |-> bag]
        ELSE [hand |-> currentHand \o SubSeq(bag, 1, Min(needed, Len(bag))),
              bag |-> SubSeq(bag, Min(needed, Len(bag)) + 1, Len(bag))]

-----------------------------------------------------------------------------
(* The player's commit: commitPlayerTurn, the commit button and the Enter key *)

isBoardValid ==
    ~resolveGridWithBlanks(grid, gameMode, placementMode, dictionary).isNull

isFirstTurn ==
    IF grid = <<>> THEN TRUE
    ELSE ~\E r \in Coords, c \in Coords : grid[r][c].isLocked

isStartCovered ==
    IF ~isFirstTurn THEN TRUE
    ELSE \E k \in 1 .. Len(turnMoves) : turnMoves[k].r = 5 /\ turnMoves[k].c = 5

canCommit ==
    /\ Len(turnMoves) > 0
    /\ isBoardValid
    /\ ~isLoadingDict
    /\ ~isCpuTurn
    /\ IF placementMode = "GO"
       THEN (IF isFirstTurn THEN isStartCovered ELSE TRUE)
       ELSE isStartCovered

\* 2. Lock grid: every cell of the move gets isLocked and turnPlaced.
RECURSIVE lockMoves(_, _, _, _)
lockMoves(g, moves, i, turn) ==
    IF i > Len(moves) THEN g
    ELSE lockMoves([g EXCEPT ![moves[i].r][moves[i].c].isLocked = TRUE,
                             ![moves[i].r][moves[i].c].turnPlaced = turn],
                   moves, i + 1, turn)

\* The payload of a TURN_COMMIT message.
snapshot(g, bag, hand, opponentHand, score, opponentScore, turn) ==
    [type |-> "TURN_COMMIT", grid |-> g, tileBag |-> bag, playerHand |-> hand,
     opponentHand |-> opponentHand, playerScore |-> score,
     opponentScore |-> opponentScore, turnCount |-> turn]

\* (mutant) an empty move is not refused
commitRefused_NullOnly(moves, resolvedGrid) == resolvedGrid.isNull

\* The two early returns of commitPlayerTurn.
commitRefused(moves, resolvedGrid) == Len(moves) = 0 \/ resolvedGrid.isNull

\* The body of commitPlayerTurn, on the state the live mirror shows.
commitPlayerTurn ==
    LET resolvedGrid ==
            resolveGridWithBlanks(grid, gameMode, placementMode, dictionary)
    IN  IF commitRefused(turnMoves, resolvedGrid)
        THEN UNCHANGED gameVars
        ELSE LET baseScore == calculateScrabbleScore(resolvedGrid.grid,
                                                     moveCoords(turnMoves))
                 newGrid == lockMoves(resolvedGrid.grid, turnMoves, 1, turnCount)
                 analysis == analyzeBoardLogic(newGrid, dictionary, placementMode)
                 logicBonus == calculateChainScore(analysis.chains,
                                                   analysis.allValidWords,
                                                   turnCount)
                 newScore == playerScore + baseScore + logicBonus.score
                 draw == drawTiles(playerHand, tileBag)
             IN  /\ playerScore' = newScore
                 /\ grid' = newGrid
                 /\ turnCount' = turnCount + 1
                 /\ playerHand' = draw.hand
                 /\ tileBag' = draw.bag
                 /\ turnMoves' = <<>>
                 /\ isCpuTurn' = TRUE
                 /\ sent' = IF playMode # "VS_CPU" /\ connRef
                            THEN Append(sent,
                                     snapshot(newGrid, draw.bag, draw.hand,
                                              cpuHand, newScore, cpuScore,
                                              turnCount + 1))
                            ELSE sent
                 /\ UNCHANGED <<gameMode, placementMode, dictionary,
                                isLoadingDict, cpuHand, cpuScore, playMode,
                                connRef, rawOps, peer, inbox, timer, search,
                                snapshots>>

\* The handler runs, whatever the state of the controls that call it.
CommitPlayerTurn ==
    /\ call = idle
    /\ call' = [fn |-> "commitPlayerTurn"]
    /\ out' = FALSE
    /\ commitPlayerTurn

\* onClick={commitPlayerTurn} disabled={!canCommit}
ClickCommit ==
    /\ call = idle
    /\ canCommit
    /\ call' = [fn |-> "commitButton"]
    /\ out' = FALSE
    /\ commitPlayerTurn

\* handleKeyDown with e.key === 'Enter'
PressEnter ==
    /\ call = idle
    /\ call' = [fn |-> "handleKeyDown.Enter"]
    /\ out' = FALSE
    /\ IF isCpuTurn THEN UNCHANGED gameVars
       ELSE IF isCpuTurn \/ isLoadingDict \/ Len(turnMoves) = 0
           THEN UNCHANGED gameVars
       ELSE IF ~isStartCovered /\ placementMode # "GO" THEN UNCHANGED gameVars
       ELSE IF ~isStartCovered /\ isFirstTurn THEN UNCHANGED gameVars
       ELSE IF ~resolveGridWithBlanks(grid, gameMode, placementMode,
                                      dictionary).isNull
           THEN commitPlayerTurn
       ELSE UNCHANGED gameVars

MaxCommitLetters == 3

CommitTiles ==
    {Tile("A", FALSE, FALSE), Tile("T", FALSE, FALSE), Tile("T", TRUE, FALSE)}

\* The cells the move and the earlier tiles lie on.
CommitRegion == {<<9, 9>>, <<9, 10>>, <<10, 9>>, <<10, 10>>}

\* At most one wildcard, on the corner cell, with at most one tile beside it.
CommitLays(n) ==
    {lay \in Lays(CommitTiles \cup {BlankTile}, n) :
        /\ \A rc \in Region : lay[rc] # NoTile => rc \in CommitRegion
        /\ \A rc \in Region : lay[rc] = BlankTile => rc = <<10, 10>>
        /\ lay[<<10, 10>>] = BlankTile =>
              Cardinality({rc \in Region : lay[rc] # NoTile}) <= 2}

\* A hand of n tiles.
handOf(n) == SubSeq(<<"E", "I", "O", "N", "R", "S", "D">>, 1, n)

\* The player's turn with a move in progress: the unlocked letters of the
\* board are the move, the hand lacks as many tiles, and two tiles are left
\* in the bag.
InitCommit ==
    /\ \E lay \in CommitLays(MaxCommitLetters) : grid = Overlay(lay)
    /\ gameMode = "DYNAMIC"
    /\ placementMode \in {"ACROSTIC", "GO"}
    /\ dictionary \in {null, WordSet(Words)}
    /\ isLoadingDict \in (IF dictionary = null THEN BOOLEAN ELSE {FALSE})
    /\ tileBag = <<"L", "U">>
    /\ turnMoves = movesOf(grid)
    /\ playerHand = handOf(HAND_SIZE - Len(turnMoves))
    /\ cpuHand = <<"E", "A", "R", "T", "H", "O", "N">>
    /\ isCpuTurn = FALSE
    /\ turnCount = 2
    /\ playerScore = 10
    /\ cpuScore = 7
    /\ playMode \in {"VS_CPU", "P2P_HOST"}
    /\ connRef \in (IF playMode = "VS_CPU" THEN {FALSE} ELSE BOOLEAN)
    /\ sent = <<>>
    /\ NoSession
    /\ rawOps = <<>>
    /\ call = idle
    /\ out = FALSE

NextCommit == CommitPlayerTurn \/ ClickCommit \/ PressEnter

SpecCommit == InitCommit /\ [][NextCommit]_vars

committing == {"commitPlayerTurn", "commitButton", "handleKeyDown.Enter"}

\* C5: while the dictionary is null, validatePlacementRules is false and
\* resolveGridWithBlanks gives no resolution for the board, and no commit of
\* the player (the handler itself, the commit button, the Enter key) changes
\* the board, a score, a hand, the bag or the turn counter.
C5_NoDictionaryNoCommit ==
    /\ [](dictionary = null =>
             /\ ~validatePlacementRules(grid, gameMode, placementMode,
                                        dictionary)
             /\ resolveGridWithBlanks(grid, gameMode, placementMode,
                                      dictionary).isNull)
    /\ [][dictionary = null /\ call'.fn \in committing =>
             UNCHANGED <<grid, playerScore, cpuScore, playerHand, cpuHand,
                         tileBag, turnCount>>]_vars

\* Enter was pressed with loading over and no dictionary, on a move that
\* the word list would accept.
C5_Witness ==
    /\ call.fn = "handleKeyDown.Enter"
    /\ dictionary = null
    /\ ~isLoadingDict
    /\ Len(turnMoves) > 0
    /\ validatePlacementRules(grid, gameMode, placementMode, WordSet(Words))

\* No assignment of letters to the '*' cells (none to assign if there is no
\* '*') makes the board validate.
NoValidAssignment == \A f \in Assignments(grid) : ~Validates(grid, f)

\* C6: commitPlayerTurn called on a move that fails validation, or has no
\* validating wildcard assignment, or is empty, changes nothing: board, hands,
\* bag, scores, turn counter, in-progress move and turn flag stay as they
\* were and no snapshot is sent.
C6_RefusedCommitIsNoOp ==
    [][call'.fn = "commitPlayerTurn" /\ (Len(turnMoves) = 0 \/ NoValidAssignment) =>
          UNCHANGED <<grid, playerHand, cpuHand, tileBag, playerScore, cpuScore,
                      turnCount, turnMoves, isCpuTurn, sent>>]_vars

\* commitPlayerTurn has run on a move with a wildcard that no letter makes
\* valid, with a dictionary at hand and a connection open.
C6_Witness ==
    /\ call.fn = "commitPlayerTurn"
    /\ dictionary # null
    /\ Len(turnMoves) > 0
    /\ StarCells(grid) # {}
    /\ NoValidAssignment
    /\ connRef

-----------------------------------------------------------------------------
(* calculateChainScore, applied to the chain compiled from a list of operator
   entries and to the words those entries lie on.  An entry's word is newly
   formed when its lastModifiedTurn is the current turn. *)

MaxCascadeOps == 3

CascadeTurn == 9

TriggerOperators == {"IF", "OR"}

ActionOperators == ChainOperators \ TriggerOperators

CascadeWords == {<<"A", "T">>, <<"T", "A">>}

CascadeScores == {0, 2, 5}

\* The k-th entry: its operator cell was filled in turn k, its word lies on
\* its own cells, and the word was last changed in turn k or in this turn.
CascadeOp(op, word, score, fresh, k) ==
    [op |-> op, turn |-> k, id |-> <<0, k>>, word |-> word, wordScore |-> score,
     lastModifiedTurn |-> IF fresh THEN CascadeTurn ELSE k,
     cellIds |-> <<(<<0, k>>), (<<1, k>>)>>, clusterId |-> 1]

\* The entries that may stand at place k: a Trigger on either word, or an
\* Action of any score on the word TA.
CascadeOpsAt(k) ==
    {CascadeOp(x[1], x[2], 1, x[3], k) :
        x \in TriggerOperators \X CascadeWords \X BOOLEAN}
    \cup {CascadeOp(x[1], <<"T", "A">>, x[2], x[3], k) :
        x \in ActionOperators \X CascadeScores \X BOOLEAN}

RECURSIVE CascadeListsOfLen(_)
CascadeListsOfLen(n) ==
    IF n = 0 THEN {<<>>}
    ELSE {Append(s, x) : s \in CascadeListsOfLen(n - 1), x \in CascadeOpsAt(n)}

\* IF, THEN 5, PLUS 10, MULT 2, OVER 0, with the word of IF formed anew on
\* the cells of OVER (two blanks, hence the score 0)
ExampleCascade ==
    <<CascadeOp("IF", <<"A", "T">>, 2, FALSE, 1),
      CascadeOp("THEN", <<"T", "A">>, 5, FALSE, 2),
      CascadeOp("PLUS", <<"T", "A">>, 10, FALSE, 3),
      CascadeOp("MULT", <<"T", "A">>, 2, FALSE, 4),
      CascadeOp("OVER", <<"A", "T">>, 0, TRUE, 5)>>

\* IF, THEN 2, MINUS 5, OVER 2: the outcome -3 is divided to floor(-1.5)
NegativeCascade ==
    <<CascadeOp("IF", <<"A", "T">>, 2, TRUE, 1),
      CascadeOp("THEN", <<"T", "A">>, 2, FALSE, 2),
      CascadeOp("MINUS", <<"T", "A">>, 5, FALSE, 3),
      CascadeOp("OVER", <<"T", "A">>, 2, FALSE, 4)>>

\* allValidWords.push: the word of every entry
wordsOfOps(ops) ==
    [k \in 1 .. Len(ops) |->
        [word |-> ops[k].word, score |-> ops[k].wordScore,
         turn |-> ops[k].lastModifiedTurn, cellIds |-> ops[k].cellIds,
         clusterId |-> ops[k].clusterId]]

InitCascade ==
    /\ \/ rawOps \in {<<>>, ExampleCascade, NegativeCascade}
       \/ \E n \in 1 .. MaxCascadeOps :
             \E s \in CascadeListsOfLen(n - 1), x \in CascadeOpsAt(n) :
                 rawOps = Append(s, x)
    /\ grid = <<>>
    /\ gameMode = "DYNAMIC"
    /\ placementMode = "ACROSTIC"
    /\ dictionary = null
    /\ isLoadingDict = TRUE
    /\ tileBag = <<>>
    /\ playerHand = <<>>
    /\ cpuHand = <<>>
    /\ turnMoves = <<>>
    /\ isCpuTurn = FALSE
    /\ turnCount = CascadeTurn
    /\ playerScore = 0
    /\ cpuScore = 0
    /\ playMode = "VS_CPU"
    /\ connRef = FALSE
    /\ sent = <<>>
    /\ NoSession
    /\ call = idle
    /\ out = FALSE

Cascade ==
    /\ call = idle
    /\ call' = [fn |-> "calculateChainScore"]
    /\ out' = calculateChainScore(buildChains(1, 1, rawOps, <<>>),
                                  wordsOfOps(rawOps), turnCount)
    /\ UNCHANGED gameVars

NextCascade == Cascade

SpecCascade == InitCascade /\ [][NextCascade]_vars

cascaded == call.fn = "calculateChainScore"

\* The chain assembled from rawOps, its Triggers and its Actions.
Assembled == IF rawOps = <<>> THEN <<>> ELSE compileOps(rawOps)

TriggersOf(chain) == SelectSeq(chain, LAMBDA x : x.op \in TriggerOperators)

ActionsOf(chain) == SelectSeq(chain, LAMBDA x : x.op \notin TriggerOperators)

HasThen(chain) == \E k \in 1 .. Len(chain) : chain[k].op = "THEN"

\* floor(a / b) for b > 0
Floor(a, b) ==
    CHOOSE q \in (0 - Abs(a)) .. Abs(a) : q * b <= a /\ a < (q + 1) * b

\* The outcome after the first n Actions, folded from the left.
RECURSIVE Outcome(_, _)
Outcome(actions, n) ==
    IF n = 0 THEN 0
    ELSE LET before == Outcome(actions, n - 1)
             score == actions[n].wordScore
             op == actions[n].op
         IN  CASE op = "THEN" -> score
               [] op \in {"PLUS", "AND"} -> before + score
               [] op = "MINUS" -> before - score
               [] op = "MULT" -> before * score
               [] op = "OVER" -> IF score = 0 THEN before
                                  ELSE Floor(before, score)

\* The entries whose word is newly formed, paired with the Triggers of the
\* chain that carry the same word.
Matches ==
    {<<n, t>> \in (1 .. Len(rawOps)) \X (1 .. Len(TriggersOf(Assembled))) :
        /\ rawOps[n].lastModifiedTurn = turnCount
        /\ rawOps[n].word = TriggersOf(Assembled)[t].word}

\* C11: the cascade outcome of a chain is the left-to-right fold of its
\* Actions in assembled order (THEN sets, PLUS and AND add, MINUS subtracts,
\* MULT multiplies, OVER floor-divides unless the score is 0), so a chain with
\* a Trigger and a THEN pays that outcome once for every match; THEN 5,
\* PLUS 10, MULT 2, OVER 0 pays 30.
C11_CascadeIsFold ==
    cascaded /\ TriggersOf(Assembled) # <<>> /\ HasThen(Assembled) =>
        /\ out.score = Cardinality(Matches) *
                       Outcome(ActionsOf(Assembled), Len(ActionsOf(Assembled)))
        /\ rawOps = ExampleCascade => out.score = 30
        /\ rawOps = NegativeCascade => out.score = 0 - 2

\* The example chain has paid 30 for one match.
C11_Witness ==
    /\ cascaded
    /\ rawOps = ExampleCascade
    /\ Cardinality(Matches) = 1
    /\ out.score = 30

\* C12: a chain with no Trigger, or no Action, or no THEN adds 0 to the logic
\* bonus and marks no cell active, whatever else it holds and whatever words
\* are newly formed.
C12_IncompleteChainPaysNothing ==
    cascaded /\ (\/ TriggersOf(Assembled) = <<>>
                 \/ ActionsOf(Assembled) = <<>>
                 \/ ~HasThen(Assembled)) =>
        out.score = 0 /\ out.activeCellIds = {}

\* A chain with a Trigger and Actions of non-zero score but no THEN, and a
\* newly formed word that carries the Trigger's word.
C12_Witness ==
    /\ cascaded
    /\ ~HasThen(Assembled)
    /\ Matches # {}
    /\ \E k \in 1 .. Len(rawOps) :
          rawOps[k].op \in {"PLUS", "MULT"} /\ rawOps[k].wordScore > 0
    /\ out.score = 0

-----------------------------------------------------------------------------
(* The logic bonus of a committed turn: commitPlayerTurn on boards whose
   letters lie on the cells around THEN (5,8), MINUS (5,9) and IF (5,10). *)

MaxBonusLetters == 5

MaxBonusMove == 3

BonusRegion == {<<4, 8>>, <<4, 9>>, <<4, 10>>, <<5, 8>>, <<5, 9>>, <<5, 10>>}

\* The board that holds tile lay[rc] on every cell rc of BonusRegion; the
\* locked letters were placed in turn 1.
BonusOverlay(lay) ==
    [r \in Coords |-> [c \in Coords |->
        IF <<r, c>> \in BonusRegion /\ lay[<<r, c>>].letter # NoLetter
        THEN [operator |-> OperatorAt(r, c), letter |-> lay[<<r, c>>].letter,
              isLocked |-> lay[<<r, c>>].isLocked,
              isBlank |-> lay[<<r, c>>].isBlank,
              turnPlaced |-> IF lay[<<r, c>>].isLocked THEN 1 ELSE 0]
        ELSE generateBoard[r][c]]]

\* The lay without its unlocked tiles: the board before the move.
lockedPart(lay) ==
    [rc \in BonusRegion |-> IF lay[rc].isLocked THEN lay[rc] ELSE NoTile]

\* At most n tiles on BonusRegion, of which one to MaxBonusMove are the move
\* in progress; the locked ones were committed, so they form words.
BonusLays(n) ==
    {lay \in [BonusRegion -> PlainTiles \cup {NoTile}] :
        /\ Cardinality({rc \in BonusRegion : lay[rc] # NoTile}) <= n
        /\ Cardinality({rc \in BonusRegion :
                           lay[rc] # NoTile /\ ~lay[rc].isLocked})
               \in 1 .. MaxBonusMove
        /\ validatePlacementRules(
               [r \in Coords |-> [c \in Coords |->
                   IF <<r, c>> \in BonusRegion
                      /\ lockedPart(lay)[<<r, c>>] # NoTile
                   THEN [operator |-> OperatorAt(r, c),
                         letter |-> lay[<<r, c>>].letter,
                         isLocked |-> FALSE, isBlank |-> FALSE,
                         turnPlaced |-> 0]
                   ELSE generateBoard[r][c]]],
               "DYNAMIC", "GO", WordSet(Words))}

InitBonus ==
    /\ \E lay \in BonusLays(MaxBonusLetters) : grid = BonusOverlay(lay)
    /\ gameMode = "DYNAMIC"
    /\ placementMode \in {"ACROSTIC", "GO"}
    /\ dictionary = WordSet(Words)
    /\ isLoadingDict = FALSE
    /\ tileBag = <<"L", "U">>
    /\ turnMoves = movesOf(grid)
    /\ playerHand = handOf(HAND_SIZE - Len(turnMoves))
    /\ cpuHand = <<"E", "A", "R", "T", "H", "O", "N">>
    /\ isCpuTurn = FALSE
    /\ turnCount = 2
    /\ playerScore = 10
    /\ cpuScore = 7
    /\ playMode = "VS_CPU"
    /\ connRef = FALSE
    /\ sent = <<>>
    /\ NoSession
    /\ rawOps = <<>>
    /\ call = idle
    /\ out = FALSE

NextBonus == CommitPlayerTurn \/ ClickCommit \/ PressEnter

SpecBonus == InitBonus /\ [][NextBonus]_vars

\* A commit that went through: the turn counter moved on.
Committed == turnCount' = turnCount + 1

\* The valid words of board g whose latest letter was placed in the given turn.
NewWordRuns(g, turn) ==
    {run \in Runs(g) :
        /\ has(dictionary, RunWord(g, run))
        /\ \E k \in run[2] .. run[3] : CellOf(g, run[1], k).turnPlaced = turn
        /\ \A k \in run[2] .. run[3] : CellOf(g, run[1], k).turnPlaced <= turn}

\* The run lies in the cluster of the chain: the whole board in ACROSTIC, the
\* connected letters in GO.
InClusterOf(g, run, chain) ==
    \/ placementMode = "ACROSTIC"
    \/ chain.compiledOps[1].id \in Joined(g, RunCells(run))

\* The newly formed words paired with the Triggers that carry their text.
PayingMatches(g, chain, turn) ==
    {m \in NewWordRuns(g, turn) \X (1 .. Len(TriggersOf(chain.compiledOps))) :
        /\ InClusterOf(g, m[1], chain)
        /\ RunWord(g, m[1]) = TriggersOf(chain.compiledOps)[m[2]].word}

\* The cascade outcome V of a chain with a Trigger and a THEN.
OutcomeOf(chain) ==
    Outcome(ActionsOf(chain.compiledOps), Len(ActionsOf(chain.compiledOps)))

Pays(chain) ==
    TriggersOf(chain.compiledOps) # <<>> /\ HasThen(chain.compiledOps)

\* V for every match, summed over the chains from the i-th on.
RECURSIVE BonusDue(_, _, _, _)
BonusDue(g, chains, i, turn) ==
    IF i > Len(chains) THEN 0
    ELSE (IF Pays(chains[i])
          THEN Cardinality(PayingMatches(g, chains[i], turn)) *
               OutcomeOf(chains[i])
          ELSE 0)
         + BonusDue(g, chains, i + 1, turn)

ChainsOf(g) == analyzeBoardLogic(g, dictionary, placementMode).chains

\* C13: a committed turn adds to the mover's score, on top of the base
\* score, the cascade outcome V of a chain once for every newly formed word
\* (valid, latest letter placed this turn) of the chain's cluster whose text
\* is the word of a Trigger of that chain; with no such word the logic bonus
\* is 0.
C13_BonusPerMatch ==
    [][Committed =>
          playerScore' = playerScore
                         + calculateScrabbleScore(grid', moveCoords(turnMoves))
                         + BonusDue(grid', ChainsOf(grid'), 1, turnCount)]_vars

\* The word of the IF cell, locked in turn 1, has been formed again on other
\* cells by the committed move, and the chain's outcome was paid.
C13_Witness ==
    /\ call.fn \in committing
    /\ turnCount = 3
    /\ \E i \in 1 .. Len(ChainsOf(grid)) :
          /\ Pays(ChainsOf(grid)[i])
          /\ OutcomeOf(ChainsOf(grid)[i]) > 0
          /\ \E m \in PayingMatches(grid, ChainsOf(grid)[i], 2) :
                /\ TriggersOf(ChainsOf(grid)[i].compiledOps)[m[2]].lastModifiedTurn = 1
                /\ playerScore >= 10 + OutcomeOf(ChainsOf(grid)[i])

\* The matches of words formed this turn with Triggers whose word stood on
\* the board before this turn (hence on other cells).
LaterMatches(g, chain, turn) ==
    {m \in PayingMatches(g, chain, turn) :
        TriggersOf(chain.compiledOps)[m[2]].lastModifiedTurn < turn}

RECURSIVE LaterBonusDue(_, _, _, _)
LaterBonusDue(g, chains, i, turn) ==
    IF i > Len(chains) THEN 0
    ELSE (IF Pays(chains[i])
          THEN Cardinality(LaterMatches(g, chains[i], turn)) *
               OutcomeOf(chains[i])
          ELSE 0)
         + LaterBonusDue(g, chains, i + 1, turn)

\* C14: a Trigger pays only when its word is played again in a later turn on
\* other cells: the logic bonus of a committed turn counts no match of a
\* word with the Trigger whose word was formed in that same turn.
C14_TriggerPaysOnlyLater ==
    [][Committed =>
          playerScore' = playerScore
                         + calculateScrabbleScore(grid', moveCoords(turnMoves))
                         + LaterBonusDue(grid', ChainsOf(grid'), 1, turnCount)]_vars

-----------------------------------------------------------------------------
(* The turn machine of one instance and of a P2P session.  The handlers are
   written on an instance record s, so that they serve both this instance
   (the variables) and the other one (peer).  Both instances run with the
   same modes and word list. *)

\* stateRef.current of this instance
Local ==
    [grid |-> grid, tileBag |-> tileBag, playerHand |-> playerHand,
     cpuHand |-> cpuHand, turnMoves |-> turnMoves, isCpuTurn |-> isCpuTurn,
     turnCount |-> turnCount, playerScore |-> playerScore,
     cpuScore |-> cpuScore, playMode |-> playMode, connRef |-> connRef]

\* The setters of this instance
SetLocal(s) ==
    /\ grid' = s.grid
    /\ tileBag' = s.tileBag
    /\ playerHand' = s.playerHand
    /\ cpuHand' = s.cpuHand
    /\ turnMoves' = s.turnMoves
    /\ isCpuTurn' = s.isCpuTurn
    /\ turnCount' = s.turnCount
    /\ playerScore' = s.playerScore
    /\ cpuScore' = s.cpuScore
    /\ playMode' = s.playMode
    /\ connRef' = s.connRef

\* splice(i, 1)
RemoveAt(seq, i) == SubSeq(seq, 1, i - 1) \o SubSeq(seq, i + 1, Len(seq))

\* prev.filter(m => !(m.r === r && m.c === c))
filterMoves(moves, r, c) ==
    SelectSeq(moves, LAMBDA m : ~(m.r = r /\ m.c = c))

\* cell.isBlank ? '*' : cell.letter
tileOf(cell) == IF cell.isBlank THEN "*" ELSE cell.letter

performTilePlacement(s, r, c, letter, handIndex) ==
    LET currentCell == s.grid[r][c]
        tileUsed == s.playerHand[handIndex]
        spliced == RemoveAt(s.playerHand, handIndex)
    IN  IF s.isCpuTurn THEN s
        ELSE IF currentCell.isLocked THEN s
        ELSE [s EXCEPT
                !.grid[r][c] = [currentCell EXCEPT !.letter = letter,
                                                   !.isLocked = FALSE,
                                                   !.isBlank = (tileUsed = "*")],
                !.playerHand = IF hasLetter(currentCell) /\ ~currentCell.isLocked
                               THEN Append(spliced, tileOf(currentCell))
                               ELSE spliced,
                !.turnMoves = Append(filterMoves(@, r, c),
                                     [r |-> r, c |-> c, letter |-> letter])]

\* handleKeyDown with e.key === 'Backspace' and the active cell (r, c)
backspace(s, r, c) ==
    LET currentCell == s.grid[r][c]
    IN  IF s.isCpuTurn THEN s
        ELSE IF hasLetter(currentCell) /\ ~currentCell.isLocked
            THEN [s EXCEPT
                    !.playerHand = Append(@, tileOf(currentCell)),
                    !.grid[r][c] = [currentCell EXCEPT !.letter = NoLetter,
                                                       !.isBlank = FALSE],
                    !.turnMoves = filterMoves(@, r, c)]
        ELSE s

\* turnMoves.forEach of handlePass and recallTiles: every cell of the move is
\* emptied and unlocked, its tile (if it holds one) joins lettersToReturn.
RECURSIVE clearMoves(_, _, _, _)
clearMoves(g, moves, i, lettersToReturn) ==
    IF i > Len(moves) THEN [grid |-> g, letters |-> lettersToReturn]
    ELSE LET cell == g[moves[i].r][moves[i].c]
         IN  clearMoves(
                 [g EXCEPT ![moves[i].r][moves[i].c] =
                     [cell EXCEPT !.letter = NoLetter, !.isLocked = FALSE,
                                  !.isBlank = FALSE]],
                 moves, i + 1,
                 IF hasLetter(cell) THEN Append(lettersToReturn, tileOf(cell))
                 ELSE lettersToReturn)

\* (mutant) the hand gets back the letters the move lists, not the tiles
recallTiles_LettersBack(s) ==
    IF Len(s.turnMoves) = 0 THEN s
    ELSE [s EXCEPT !.grid = clearMoves(s.grid, s.turnMoves, 1, <<>>).grid,
                   !.playerHand = @ \o [k \in 1 .. Len(s.turnMoves) |->
                                            s.turnMoves[k].letter],
                   !.turnMoves = <<>>]

recallTiles(s) ==
    IF Len(s.turnMoves) = 0 THEN s
    ELSE LET cleared == clearMoves(s.grid, s.turnMoves, 1, <<>>)
         IN  [s EXCEPT !.grid = cleared.grid,
                       !.playerHand = @ \o cleared.letters,
                       !.turnMoves = <<>>]

Reverse(seq) == [k \in 1 .. Len(seq) |-> seq[Len(seq) + 1 - k]]

\* Some of the orders the Fisher-Yates loop can leave the bag in.
Shuffles(seq) == {seq, Reverse(seq)}

\* Is a snapshot sent: P2P play with an open connection
sends(s) == s.playMode \in {"P2P_HOST", "P2P_CLIENT"} /\ s.connRef

\* [state, msgs]: the instance after the pass and the snapshots it sends
handlePass(s, newBag) ==
    LET cleared == clearMoves(s.grid, s.turnMoves, 1, s.playerHand)
        draw == drawTiles(<<>>, newBag)
    IN  [state |-> [s EXCEPT !.grid = cleared.grid, !.turnMoves = <<>>,
                             !.playerHand = draw.hand, !.tileBag = draw.bag,
                             !.isCpuTurn = TRUE],
         msgs |-> IF sends(s)
                  THEN <<snapshot(cleared.grid, draw.bag, draw.hand, s.cpuHand,
                                  s.playerScore, s.cpuScore, s.turnCount)>>
                  ELSE <<>>]

\* let newBag = [...tileBag, ...lettersToReturn], before the shuffle
passBag(s) == s.tileBag \o clearMoves(s.grid, s.turnMoves, 1, s.playerHand).letters

\* commitPlayerTurn on an instance record: [state, msgs]
commitPlayerTurnOf(s) ==
    LET resolvedGrid ==
            resolveGridWithBlanks(s.grid, gameMode, placementMode, dictionary)
    IN  IF commitRefused(s.turnMoves, resolvedGrid)
        THEN [state |-> s, msgs |-> <<>>]
        ELSE LET baseScore == calculateScrabbleScore(resolvedGrid.grid,
                                                     moveCoords(s.turnMoves))
                 newGrid == lockMoves(resolvedGrid.grid, s.turnMoves, 1,
                                      s.turnCount)
                 analysis == analyzeBoardLogic(newGrid, dictionary, placementMode)
                 logicBonus == calculateChainScore(analysis.chains,
                                                   analysis.allValidWords,
                                                   s.turnCount)
                 newScore == s.playerScore + baseScore + logicBonus.score
                 draw == drawTiles(s.playerHand, s.tileBag)
             IN  [state |-> [s EXCEPT !.playerScore = newScore,
                                      !.grid = newGrid,
                                      !.turnCount = @ + 1,
                                      !.playerHand = draw.hand,
                                      !.tileBag = draw.bag,
                                      !.turnMoves = <<>>,
                                      !.isCpuTurn = TRUE],
                  msgs |-> IF s.playMode # "VS_CPU" /\ s.connRef
                           THEN <<snapshot(newGrid, draw.bag, draw.hand,
                                           s.cpuHand, newScore, s.cpuScore,
                                           s.turnCount + 1)>>
                           ELSE <<>>]

\* connection.on('data'): the receiver takes the sender's view, swapped
receive(s, data) ==
    IF data.type \in {"INIT_GAME", "TURN_COMMIT"}
    THEN [s EXCEPT !.grid = data.grid, !.tileBag = data.tileBag,
                   !.playerHand = data.opponentHand,
                   !.cpuHand = data.playerHand,
                   !.playerScore = data.opponentScore,
                   !.cpuScore = data.playerScore,
                   !.turnCount = data.turnCount,
                   !.isCpuTurn = FALSE]
    ELSE s

\* canCommit of an instance
canCommitOf(s) ==
    /\ Len(s.turnMoves) > 0
    /\ ~resolveGridWithBlanks(s.grid, gameMode, placementMode, dictionary).isNull
    /\ ~isLoadingDict
    /\ ~s.isCpuTurn
    /\ LET first == ~\E r \in Coords, c \in Coords : s.grid[r][c].isLocked
           covered == ~first \/ \E k \in 1 .. Len(s.turnMoves) :
                                    s.turnMoves[k].r = 5 /\ s.turnMoves[k].c = 5
       IN  IF placementMode = "GO" THEN (IF first THEN covered ELSE TRUE)
           ELSE covered

\* Bounds of the session: the turn counter, the snapshots in flight one way.
MaxGameTurn == 4

MaxInFlight == 1

MaxSnapshots == 3

\* The tiles the players lay and the cells they lay them on.
InputLetters == {"T"}

PlayCells == {<<10, 9>>, <<10, 10>>}

\* The board of turn 2: AT was committed on (9,9), (9,10) in turn 1.
GameLay ==
    [rc \in Region |->
        IF rc = <<9, 9>> THEN Tile("A", TRUE, FALSE)
        ELSE IF rc = <<9, 10>> THEN Tile("T", TRUE, FALSE)
        ELSE NoTile]

\* What the steps of this instance leave alone.
settings == <<gameMode, placementMode, dictionary, isLoadingDict, rawOps>>

LocalStep(fn, res) ==
    /\ Len(sent) + Len(res.msgs) <= MaxInFlight
    /\ snapshots + Len(res.msgs) <= MaxSnapshots
    /\ SetLocal(res.state)
    /\ sent' = sent \o res.msgs
    /\ snapshots' = snapshots + Len(res.msgs)
    /\ call' = [fn |-> fn]
    /\ out' = FALSE
    /\ UNCHANGED <<settings, peer, inbox, timer, search>>

PeerStep(fn, res) ==
    /\ Len(inbox) + Len(res.msgs) <= MaxInFlight
    /\ snapshots + Len(res.msgs) <= MaxSnapshots
    /\ peer' = res.state
    /\ inbox' = inbox \o res.msgs
    /\ snapshots' = snapshots + Len(res.msgs)
    /\ call' = [fn |-> fn]
    /\ out' = FALSE
    /\ UNCHANGED <<grid, tileBag, playerHand, cpuHand, turnMoves, isCpuTurn,
                   turnCount, playerScore, cpuScore, playMode, connRef, sent,
                   settings, timer, search>>

silent(s) == [state |-> s, msgs |-> <<>>]

\* handleCellClick / handleRackTileClick / handleDrop: a tile of the hand is
\* laid on an unlocked cell
Place ==
    \E rc \in PlayCells, i \in 1 .. Len(playerHand) :
        /\ playerHand[i] \in InputLetters
        /\ ~isCpuTurn
        /\ ~grid[rc[1]][rc[2]].isLocked
        /\ LocalStep("performTilePlacement",
               silent(performTilePlacement(Local, rc[1], rc[2],
                                           playerHand[i], i)))

\* The handler itself, whatever the controls allow
PerformTilePlacement ==
    \E rc \in PlayCells, i \in 1 .. Len(playerHand) :
        /\ playerHand[i] \in InputLetters
        /\ isCpuTurn \/ grid[rc[1]][rc[2]].isLocked
        /\ LocalStep("performTilePlacement",
               silent(performTilePlacement(Local, rc[1], rc[2],
                                           playerHand[i], i)))

Backspace ==
    \E rc \in PlayCells :
        LocalStep("handleKeyDown.Backspace", silent(backspace(Local, rc[1], rc[2])))

RecallTiles == LocalStep("recallTiles", silent(recallTiles(Local)))

HandlePass ==
    \E newBag \in Shuffles(passBag(Local)) :
        LocalStep("handlePass", handlePass(Local, newBag))

Commit ==
    /\ turnCount < MaxGameTurn
    /\ LocalStep("commitPlayerTurn", commitPlayerTurnOf(Local))

\* connection.on('data') of this instance
Receive ==
    /\ connRef
    /\ inbox # <<>>
    /\ SetLocal(receive(Local, Head(inbox)))
    /\ inbox' = Tail(inbox)
    /\ call' = [fn |-> "connection.on.data"]
    /\ out' = FALSE
    /\ UNCHANGED <<settings, sent, peer, timer, search, snapshots>>

\* p.on('connection') of the host: the payload is read now, sent later
OnConnection ==
    /\ playMode = "P2P_HOST"
    /\ ~connRef
    /\ connRef' = TRUE
    /\ timer' = <<[snapshot(grid, tileBag, playerHand, cpuHand, playerScore,
                            cpuScore, turnCount) EXCEPT !.type = "INIT_GAME"]>>
    /\ call' = [fn |-> "peer.on.connection"]
    /\ out' = FALSE
    /\ UNCHANGED <<grid, tileBag, playerHand, cpuHand, turnMoves, isCpuTurn,
                   turnCount, playerScore, cpuScore, playMode, sent, settings,
                   peer, inbox, search, snapshots>>

\* setTimeout(() => connection.send(INIT_GAME), 500)
SendInit ==
    /\ timer # <<>>
    /\ Len(sent) < MaxInFlight
    /\ snapshots < MaxSnapshots
    /\ sent' = Append(sent, Head(timer))
    /\ snapshots' = snapshots + 1
    /\ timer' = <<>>
    /\ call' = [fn |-> "setTimeout.INIT_GAME"]
    /\ out' = FALSE
    /\ UNCHANGED <<grid, tileBag, playerHand, cpuHand, turnMoves, isCpuTurn,
                   turnCount, playerScore, cpuScore, playMode, connRef,
                   settings, peer, inbox, search>>

\* connection.on('open') of the joining instance
PeerOnOpen ==
    /\ ~peer.connRef
    /\ PeerStep("peer:connection.on.open",
                silent([peer EXCEPT !.connRef = TRUE, !.playMode = "P2P_CLIENT"]))

\* connection.on('data') of the other instance
PeerReceive ==
    /\ peer.connRef
    /\ sent # <<>>
    /\ peer' = receive(peer, Head(sent))
    /\ sent' = Tail(sent)
    /\ call' = [fn |-> "peer:connection.on.data"]
    /\ out' = FALSE
    /\ UNCHANGED <<grid, tileBag, playerHand, cpuHand, turnMoves, isCpuTurn,
                   turnCount, playerScore, cpuScore, playMode, connRef,
                   settings, inbox, timer, search, snapshots>>

\* The other player, once in the session, plays through the controls.
PeerPlace ==
    \E rc \in PlayCells, i \in 1 .. Len(peer.playerHand) :
        /\ peer.playMode = "P2P_CLIENT"
        /\ peer.playerHand[i] \in InputLetters
        /\ ~peer.isCpuTurn
        /\ ~peer.grid[rc[1]][rc[2]].isLocked
        /\ PeerStep("peer:performTilePlacement",
               silent(performTilePlacement(peer, rc[1], rc[2],
                                           peer.playerHand[i], i)))

PeerRecall ==
    /\ peer.playMode = "P2P_CLIENT"
    /\ ~peer.isCpuTurn
    /\ Len(peer.turnMoves) > 0
    /\ PeerStep("peer:recallTiles", silent(recallTiles(peer)))

PeerPass ==
    /\ peer.playMode = "P2P_CLIENT"
    /\ ~peer.isCpuTurn
    /\ \E newBag \in Shuffles(passBag(peer)) :
          PeerStep("peer:handlePass", handlePass(peer, newBag))

PeerCommit ==
    /\ peer.playMode = "P2P_CLIENT"
    /\ peer.turnCount < MaxGameTurn
    /\ canCommitOf(peer)
    /\ PeerStep("peer:commitPlayerTurn", commitPlayerTurnOf(peer))

\* The host, in its second turn, waits for the other player; the joining
\* instance has its own fresh game until the first snapshot arrives.
InitGame ==
    /\ grid = Overlay(GameLay)
    /\ gameMode = "DYNAMIC"
    /\ placementMode = "ACROSTIC"
    /\ dictionary = WordSet(Words)
    /\ isLoadingDict = FALSE
    /\ tileBag = <<>>
    /\ playerHand = <<"E", "T">>
    /\ cpuHand = <<"O", "T">>
    /\ turnMoves = <<>>
    /\ isCpuTurn = FALSE
    /\ turnCount = 2
    /\ playerScore = 2
    /\ cpuScore = 0
    /\ playMode = "P2P_HOST"
    /\ connRef = FALSE
    /\ sent = <<>>
    /\ rawOps = <<>>
    /\ peer = [grid |-> generateBoard, tileBag |-> <<>>,
               playerHand |-> <<"B">>, cpuHand |-> <<"C">>,
               turnMoves |-> <<>>, isCpuTurn |-> FALSE, turnCount |-> 1,
               playerScore |-> 0, cpuScore |-> 0, playMode |-> "VS_CPU",
               connRef |-> FALSE]
    /\ inbox = <<>>
    /\ timer = <<>>
    /\ search = [pc |-> "idle"]
    /\ snapshots = 0
    /\ call = idle
    /\ out = FALSE

NextGame ==
    \/ Place \/ PerformTilePlacement \/ Backspace \/ RecallTiles
    \/ HandlePass \/ Commit \/ Receive \/ OnConnection \/ SendInit
    \/ PeerOnOpen \/ PeerReceive \/ PeerPlace \/ PeerRecall \/ PeerPass
    \/ PeerCommit

SpecGame == InitGame /\ [][NextGame]_vars

\* The cells of board g that hold a locked letter.
LockedLetters(g) ==
    {rc \in Coords \X Coords :
        hasLetter(g[rc[1]][rc[2]]) /\ g[rc[1]][rc[2]].isLocked}

\* C15: a locked cell keeps its letter, its isBlank flag, its turnPlaced and
\* its lock through every step of the session: placements, backspaces,
\* recalls, passes, commits and received snapshots.
C15_LockedCellsNeverChange ==
    [][\A rc \in LockedLetters(grid) :
          /\ grid'[rc[1]][rc[2]].letter = grid[rc[1]][rc[2]].letter
          /\ grid'[rc[1]][rc[2]].isBlank = grid[rc[1]][rc[2]].isBlank
          /\ grid'[rc[1]][rc[2]].turnPlaced = grid[rc[1]][rc[2]].turnPlaced
          /\ grid'[rc[1]][rc[2]].isLocked]_vars

\* The initialization snapshot has been sent and taken in.
Initialized ==
    /\ connRef
    /\ peer.connRef
    /\ timer = <<>>
    /\ \A k \in 1 .. Len(sent) : sent[k].type # "INIT_GAME"

\* C17: from the initialization snapshot onward at most one of the two
\* instances of a P2P session is unlocked for input.
C17_OneSideUnlocked == Initialized => (isCpuTurn \/ peer.isCpuTurn)

-----------------------------------------------------------------------------
(* The player's handlers, each applied once to a state of the game: either
   the player's turn with a move in progress, or the opponent's turn. *)

\* A full hand less the tiles of the move in progress.
turnHand(n) == SubSeq(<<"T", "E", "I", "O", "N", "R", "S">>, 1, n)

InitTurn ==
    /\ isCpuTurn \in BOOLEAN
    /\ \E lay \in CommitLays(MaxCommitLetters) :
          /\ \A rc \in Region : lay[rc] # NoTile =>
                 /\ ~lay[rc].isBlank
                 /\ lay[rc].letter # "*"
                 /\ isCpuTurn => lay[rc].isLocked
          /\ grid = Overlay(lay)
    /\ gameMode = "DYNAMIC"
    /\ placementMode = "ACROSTIC"
    /\ dictionary = WordSet(Words)
    /\ isLoadingDict = FALSE
    /\ tileBag = <<"L", "U">>
    /\ turnMoves = movesOf(grid)
    /\ playerHand = turnHand(HAND_SIZE - Len(turnMoves))
    /\ cpuHand = <<"E", "A", "R", "T", "H", "O", "N">>
    /\ turnCount = 2
    /\ playerScore = 10
    /\ cpuScore = 7
    /\ playMode \in {"VS_CPU", "P2P_HOST"}
    /\ connRef = (playMode = "P2P_HOST")
    /\ sent = <<>>
    /\ rawOps = <<>>
    /\ NoSession
    /\ call = idle
    /\ out = FALSE

NextTurn ==
    \/ (call = idle /\ Place)
    \/ (call = idle /\ PerformTilePlacement)
    \/ (call = idle /\ Backspace)
    \/ (call = idle /\ RecallTiles)
    \/ (call = idle /\ HandlePass)
    \/ (call = idle /\ Commit)

SpecTurn == InitTurn /\ [][NextTurn]_vars

PlayerOperations ==
    {"performTilePlacement", "handleKeyDown.Backspace", "recallTiles",
     "handlePass", "commitPlayerTurn"}

\* C16: while isCpuTurn is true, a tile placement, a backspace, a recall, a
\* pass or a commit of the player leaves the board, the bag, both hands, both
\* scores and the turn counter as they were.
C16_LockedOutPlayerChangesNothing ==
    [][isCpuTurn /\ call'.fn \in PlayerOperations =>
          UNCHANGED <<grid, tileBag, playerHand, cpuHand, playerScore,
                      cpuScore, turnCount>>]_vars

-----------------------------------------------------------------------------
(* The opponent's move search: performCpuTurnAsync, canMakeWord, getPivots,
   evaluatePlacement, executeMove, passCpuTurn.  Word positions count from 1;
   a pivot is kept as the source has it, counted from 0. *)

\* arr.indexOf(x), counted from 1; 0 when x is absent
indexOf(seq, x) ==
    IF \E k \in 1 .. Len(seq) : seq[k] = x
    THEN CHOOSE k \in 1 .. Len(seq) :
             seq[k] = x /\ \A j \in 1 .. (k - 1) : seq[j] # x
    ELSE 0

\* getCharFrequency(arr)[x] || 0
getCharFrequency(seq, x) == Cardinality({k \in 1 .. Len(seq) : seq[k] = x})

RECURSIVE sumDeficits(_, _, _, _)
sumDeficits(letters, word, hand, anchorChar) ==
    IF letters = {} THEN 0
    ELSE LET char == CHOOSE x \in letters : TRUE
             count == getCharFrequency(word, char)
                      - (IF char = anchorChar THEN 1 ELSE 0)
             owned == getCharFrequency(hand, char)
         IN  (IF count > owned THEN count - owned ELSE 0)
             + sumDeficits(letters \ {char}, word, hand, anchorChar)

canMakeWord(word, hand, anchorChar) ==
    IF anchorChar # NoLetter /\ getCharFrequency(word, anchorChar) = 0
    THEN FALSE
    ELSE sumDeficits({word[k] : k \in 1 .. Len(word)}, word, hand, anchorChar)
             <= getCharFrequency(hand, "*")

\* The pivots of a word, in rising order
getPivots(word, anchorChar) ==
    IF anchorChar = NoLetter THEN <<Len(word) \div 2>>
    ELSE LET at == SelectSeq([k \in 1 .. Len(word) |-> k],
                             LAMBDA k : word[k] = anchorChar)
         IN  [i \in 1 .. Len(at) |-> at[i] - 1]

\* The loop of evaluatePlacement over the letters of the word:
\* st = [ok, grid, hand, coords]
RECURSIVE overlayWord(_, _, _, _, _, _, _)
overlayWord(st, word, k, startR, startC, dir, turn) ==
    IF ~st.ok \/ k > Len(word) THEN st
    ELSE LET r == IF dir = "V" THEN startR + k - 1 ELSE startR
             c == IF dir = "H" THEN startC + k - 1 ELSE startC
             char == word[k]
             cell == st.grid[r][c]
             idx == indexOf(st.hand, char)
             bIdx == indexOf(st.hand, "*")
             put(i, blank) ==
                 [st EXCEPT !.grid[r][c] =
                                [cell EXCEPT !.letter = char, !.isLocked = TRUE,
                                             !.isBlank = blank,
                                             !.turnPlaced = turn],
                            !.hand = RemoveAt(@, i),
                            !.coords = Append(@, <<r, c>>)]
         IN  IF hasLetter(cell)
             THEN (IF cell.letter # char THEN [st EXCEPT !.ok = FALSE]
                   ELSE overlayWord(st, word, k + 1, startR, startC, dir, turn))
             ELSE IF idx > 0
                 THEN overlayWord(put(idx, FALSE), word, k + 1, startR, startC,
                                  dir, turn)
             ELSE IF bIdx > 0
                 THEN overlayWord(put(bIdx, TRUE), word, k + 1, startR, startC,
                                  dir, turn)
             ELSE [st EXCEPT !.ok = FALSE]

\* newlyPlacedCoords with what the board holds on them
filled(g, coords) ==
    {[r |-> coords[k][1], c |-> coords[k][2],
      letter |-> g[coords[k][1]][coords[k][2]].letter,
      isBlank |-> g[coords[k][1]][coords[k][2]].isBlank] :
        k \in 1 .. Len(coords)}

\* evaluatePlacement up to its return: was the candidate overlaid and
\* validated, what is it worth, and what it wrote on its scratch board
evaluation(word, pivotIdx, ar, ac, dir) ==
    LET startR == IF dir = "V" THEN ar - pivotIdx ELSE ar
        startC == IF dir = "H" THEN ac - pivotIdx ELSE ac
        rejected == [accepted |-> FALSE, value |-> 0, placed |-> {}]
    IN  IF startR < 0 \/ startC < 0 THEN rejected
        ELSE IF dir = "H" /\ startC + Len(word) > BOARD_SIZE THEN rejected
        ELSE IF dir = "V" /\ startR + Len(word) > BOARD_SIZE THEN rejected
        ELSE LET st == overlayWord([ok |-> TRUE, grid |-> grid,
                                    hand |-> cpuHand, coords |-> <<>>],
                                   word, 1, startR, startC, dir, turnCount)
             IN  IF ~st.ok THEN rejected
                 ELSE IF Len(st.coords) = 0 THEN rejected
                 ELSE IF validatePlacementRules(st.grid, gameMode,
                                                placementMode, dictionary)
                     THEN LET analysis == analyzeBoardLogic(st.grid, dictionary,
                                                            placementMode)
                          IN  [accepted |-> TRUE,
                               value |->
                                   calculateScrabbleScore(st.grid, st.coords)
                                   + calculateChainScore(analysis.chains,
                                         analysis.allValidWords, turnCount).score,
                               placed |-> filled(st.grid, st.coords)]
                 ELSE rejected

\* The number evaluatePlacement returns: the value, or -1 for a rejection
sentinel(e) == IF e.accepted THEN e.value ELSE 0 - 1

evaluatePlacement(word, pivotIdx, ar, ac, dir) ==
    sentinel(evaluation(word, pivotIdx, ar, ac, dir))

\* The loop of executeMove: every empty cell under the word takes its letter,
\* with a tile of the hand, a wildcard, or no tile at all.
RECURSIVE placeWord(_, _, _, _)
placeWord(st, move, k, turn) ==
    IF k > Len(move.word) THEN st
    ELSE LET r == IF move.dir = "V" THEN move.anchor.r - move.pivot + k - 1
                  ELSE move.anchor.r
             c == IF move.dir = "H" THEN move.anchor.c - move.pivot + k - 1
                  ELSE move.anchor.c
             char == move.word[k]
             hIdx == indexOf(st.hand, char)
             bIdx == indexOf(st.hand, "*")
         IN  IF hasLetter(st.grid[r][c]) THEN placeWord(st, move, k + 1, turn)
             ELSE placeWord(
                      [grid |-> [st.grid EXCEPT ![r][c] =
                                    [@ EXCEPT !.letter = char,
                                              !.isLocked = TRUE,
                                              !.isBlank = (hIdx = 0 /\ bIdx > 0),
                                              !.turnPlaced = turn]],
                       hand |-> IF hIdx > 0 THEN RemoveAt(st.hand, hIdx)
                                ELSE IF bIdx > 0 THEN RemoveAt(st.hand, bIdx)
                                ELSE st.hand,
                       coords |-> Append(st.coords, <<r, c>>)],
                      move, k + 1, turn)

\* The word list in the order of the fetched file
WordList ==
    <<(<<"A", "T">>), (<<"T", "A">>), (<<"T", "A", "T">>), (<<"A", "T", "T">>),
      (<<"A", "H">>), (<<"H", "A">>), (<<"H", "A", "T">>)>>

\* dictByLetter[letter] || []: the loaded words that hold the letter, in the
\* order of the file
dictByLetter(letter) ==
    IF dictionary.isNull THEN <<>>
    ELSE SelectSeq(WordList,
                   LAMBDA w : /\ w \in dictionary.words
                              /\ \E k \in 1 .. Len(w) : w[k] = letter)

\* One of the orders a shuffle can leave a list in.
ShuffleKinds == {"same", "reversed"}

shuffled(seq, kind) == IF kind = "reversed" THEN Reverse(seq) ELSE seq

\* candidateWords.sort((a, b) => b.length - a.length), from length n down
RECURSIVE sortByLength(_, _)
sortByLength(words, n) ==
    IF n < 2 THEN <<>>
    ELSE SelectSeq(words, LAMBDA w : Len(w) = n) \o sortByLength(words, n - 1)

\* The locked letters of the rows from r on, row by row
RECURSIVE anchorsFrom(_, _)
anchorsFrom(g, r) ==
    IF r >= BOARD_SIZE THEN <<>>
    ELSE LET cols == SelectSeq([i \in 1 .. BOARD_SIZE |-> i - 1],
                               LAMBDA c : hasLetter(g[r][c]) /\ g[r][c].isLocked)
         IN  [i \in 1 .. Len(cols) |->
                 [r |-> r, c |-> cols[i], letter |-> g[r][cols[i]].letter]]
             \o anchorsFrom(g, r + 1)

\* The distinct letters of the hand, wildcards left out, in hand order
RECURSIVE uniqueHand(_, _)
uniqueHand(hand, k) ==
    IF k > Len(hand) THEN <<>>
    ELSE (IF hand[k] = "*" \/ \E j \in 1 .. (k - 1) : hand[j] = hand[k]
          THEN <<>> ELSE <<hand[k]>>) \o uniqueHand(hand, k + 1)

RECURSIVE openingWords(_, _)
openingWords(letters, k) ==
    IF k > Len(letters) THEN <<>>
    ELSE dictByLetter(letters[k]) \o openingWords(letters, k + 1)

\* The candidate words of an anchor, in the order the loop takes them
candidateWords(anchor, hand, kind) ==
    LET listed ==
            IF anchor.letter # NoLetter
            THEN shuffled(dictByLetter(anchor.letter), kind)
            ELSE SubSeq(shuffled(SelectSeq(openingWords(uniqueHand(hand, 1), 1),
                                           LAMBDA w : Len(w) <= 8), kind),
                        1, Min(2000, Len(SelectSeq(
                                             openingWords(uniqueHand(hand, 1), 1),
                                             LAMBDA w : Len(w) <= 8))))
    IN  sortByLength(SelectSeq(listed, LAMBDA w : Len(w) <= 9 /\ Len(w) >= 2), 9)

\* The two evaluations of every pivot of a word, H before V; the loop can
\* yield to the host only at the top of a word's iteration, and its clock
\* has just been set when the first word of an anchor is reached.
RECURSIVE pivotMoves(_, _, _, _, _)
pivotMoves(word, anchor, pivots, i, canYield) ==
    IF i > Len(pivots) THEN <<>>
    ELSE <<[word |-> word, pivot |-> pivots[i], anchor |-> anchor, dir |-> "H",
            yield |-> (canYield /\ i = 1)],
           [word |-> word, pivot |-> pivots[i], anchor |-> anchor, dir |-> "V",
            yield |-> FALSE]>>
         \o pivotMoves(word, anchor, pivots, i + 1, canYield)

RECURSIVE wordMoves(_, _, _, _)
wordMoves(words, anchor, hand, k) ==
    IF k > Len(words) THEN <<>>
    ELSE (IF canMakeWord(words[k], hand, anchor.letter)
          THEN pivotMoves(words[k], anchor, getPivots(words[k], anchor.letter),
                          1, k > 1)
          ELSE <<>>)
         \o wordMoves(words, anchor, hand, k + 1)

RECURSIVE anchorMoves(_, _, _, _)
anchorMoves(anchors, hand, kind, i) ==
    IF i > Len(anchors) THEN <<>>
    ELSE wordMoves(candidateWords(anchors[i], hand, kind), anchors[i], hand, 1)
         \o anchorMoves(anchors, hand, kind, i + 1)

\* The candidates of a search in the order they are evaluated: anchors as
\* shuffled, at most maxAnchors of them, the words of each as shuffled and
\* sorted, every pivot, H then V.
enumeration(g, hand, pMode, extra, anchorKind, wordKind) ==
    LET locked == anchorsFrom(g, 0)
        first == Len(locked) = 0
        anchors == (IF first THEN <<[r |-> 5, c |-> 5, letter |-> NoLetter]>>
                    ELSE locked)
                   \o (IF pMode = "GO" /\ ~first /\ Len(locked) < 5
                       THEN extra ELSE <<>>)
        maxAnchors == IF first THEN 1 ELSE 12
    IN  anchorMoves(SubSeq(shuffled(anchors, anchorKind), 1,
                           Min(Len(anchors), maxAnchors)),
                    hand, wordKind, 1)

NoMove == [word |-> <<>>]

\* if (score > -1) { if (!bestMove || score > bestMove.aiScore) bestMove = ... }
better(score, bestMove) ==
    score > 0 - 1 /\ (bestMove = NoMove \/ score > bestMove.aiScore)

\* (mutant) the loop ends at the first rejected candidate
pcAfter_StopOnReject(queue, bestMove, score) ==
    IF score = 0 - 1 THEN "aborted"
    ELSE IF queue # <<>> THEN "scan"
    ELSE IF bestMove # NoMove THEN "found" ELSE "none"

\* Where the search stands once a candidate has been evaluated: in the loop
\* while candidates are left, then at if (bestMove) ... else ...
pcAfter(queue, bestMove, score) ==
    IF queue # <<>> THEN "scan"
    ELSE IF bestMove # NoMove THEN "found" ELSE "none"

MaxCpuLetters == 3

LockedTiles == {Tile(l, TRUE, FALSE) : l \in {"A", "T"}}

\* At most n committed letters on BonusRegion that form words.
CpuLays(n) ==
    {lay \in [BonusRegion -> LockedTiles \cup {NoTile}] :
        /\ Cardinality({rc \in BonusRegion : lay[rc] # NoTile}) <= n
        /\ validatePlacementRules(
               [r \in Coords |-> [c \in Coords |->
                   IF <<r, c>> \in BonusRegion /\ lay[<<r, c>>] # NoTile
                   THEN [operator |-> OperatorAt(r, c),
                         letter |-> lay[<<r, c>>].letter,
                         isLocked |-> FALSE, isBlank |-> FALSE,
                         turnPlaced |-> 0]
                   ELSE generateBoard[r][c]]],
               "DYNAMIC", "GO", WordSet(Words))}

\* A board whose THEN and MINUS cells carry words: H over A in column 9,
\* T A in row 5, so that a word on the IF cell of row 5 triggers a cascade of
\* 3 - 3 - 5.
DebtLay ==
    [rc \in BonusRegion |->
        IF rc = <<4, 9>> THEN Tile("H", TRUE, FALSE)
        ELSE IF rc = <<5, 8>> THEN Tile("T", TRUE, FALSE)
        ELSE IF rc = <<5, 9>> THEN Tile("A", TRUE, FALSE)
        ELSE NoTile]

CpuHands == {<<"H", "T", "A">>, <<"T", "T">>}

\* A shorter word list
FewWords == {<<"T", "A">>, <<"H", "A">>, <<"T", "A", "T">>}

\* Where Math.random() can put the three extra anchors of GO placement
ExtraAnchors ==
    {<<[r |-> 4, c |-> 9, letter |-> NoLetter],
       [r |-> 3, c |-> 8, letter |-> NoLetter],
       [r |-> 4, c |-> 9, letter |-> NoLetter]>>}

CpuSettings ==
    {<<"DYNAMIC", "ACROSTIC">>, <<"FIXED", "ACROSTIC">>, <<"DYNAMIC", "GO">>}

\* The opponent's turn has begun, the player having committed or passed,
\* while the word list is still being fetched; the bag is used up.
InitCpu ==
    /\ \E lay \in CpuLays(MaxCpuLetters) \cup {DebtLay} :
          grid = BonusOverlay(lay)
    /\ \E s \in CpuSettings : gameMode = s[1] /\ placementMode = s[2]
    /\ isLoadingDict = TRUE
    /\ dictionary = null
    /\ tileBag = <<>>
    /\ turnMoves = <<>>
    /\ playerHand = handOf(HAND_SIZE)
    /\ cpuHand \in CpuHands
    /\ isCpuTurn = TRUE
    /\ turnCount = 2
    /\ playerScore = 10
    /\ cpuScore = 7
    /\ playMode = "VS_CPU"
    /\ connRef = FALSE
    /\ sent = <<>>
    /\ peer = <<>>
    /\ inbox = <<>>
    /\ timer = <<>>
    /\ search = [pc |-> "idle"]
    /\ snapshots = 0
    /\ rawOps = <<>>
    /\ call = idle
    /\ out = FALSE

\* loadDictionary settles: the word list arrived, or the fetch failed
LoadDictionary ==
    /\ isLoadingDict
    /\ isLoadingDict' = FALSE
    /\ dictionary' \in {WordSet(Words), WordSet(FewWords), null}
    /\ UNCHANGED <<grid, gameMode, placementMode, tileBag, turnMoves,
                   playerHand, cpuHand, isCpuTurn, turnCount, playerScore,
                   cpuScore, playMode, connRef, sent, peer, inbox, timer,
                   search, snapshots, rawOps, call, out>>

\* What a step of the search leaves alone besides the game state.
searchFrame ==
    UNCHANGED <<gameMode, placementMode, dictionary, isLoadingDict, turnMoves,
                playerHand, playerScore, playMode, connRef, sent, peer, inbox,
                timer, snapshots, rawOps>>

\* The effect on [isCpuTurn, isLoadingDict, playMode] calls performCpuTurnAsync
StartSearch ==
    /\ search.pc = "idle"
    /\ isCpuTurn /\ playMode = "VS_CPU" /\ ~isLoadingDict
    /\ search' = [pc |-> "start"]
    /\ UNCHANGED <<grid, tileBag, cpuHand, isCpuTurn, turnCount, cpuScore,
                   call, out>>
    /\ searchFrame

\* After the first wait: the state is read, the anchors and the candidates
\* of the turn are fixed.
Scan ==
    /\ search.pc = "start"
    /\ \E extra \in ExtraAnchors, anchorKind \in ShuffleKinds,
          wordKind \in ShuffleKinds :
          LET queue == enumeration(grid, cpuHand, placementMode, extra,
                                   anchorKind, wordKind)
          IN  search' = [pc |-> pcAfter(queue, NoMove, 0), queue |-> queue,
                         bestMove |-> NoMove, seen |-> <<>>]
    /\ UNCHANGED <<grid, tileBag, cpuHand, isCpuTurn, turnCount, cpuScore,
                   call, out>>
    /\ searchFrame

\* One evaluatePlacement of the loop and the update of bestMove
Evaluate ==
    /\ search.pc = "scan"
    /\ \E move \in {Head(search.queue)} :
       \E e \in {evaluation(move.word, move.pivot, move.anchor.r,
                            move.anchor.c, move.dir)} :
       \E bestMove \in {IF better(sentinel(e), search.bestMove)
                         THEN [word |-> move.word, pivot |-> move.pivot,
                               anchor |-> move.anchor, dir |-> move.dir,
                               score |-> sentinel(e), aiScore |-> sentinel(e)]
                         ELSE search.bestMove} :
          search' = [pc |-> pcAfter(Tail(search.queue), bestMove, sentinel(e)),
                     queue |-> Tail(search.queue),
                     bestMove |-> bestMove,
                     seen |-> Append(search.seen,
                                     [move |-> move, accepted |-> e.accepted,
                                      value |-> e.value,
                                      placed |-> e.placed])]
    /\ UNCHANGED <<grid, tileBag, cpuHand, isCpuTurn, turnCount, cpuScore,
                   call, out>>
    /\ searchFrame

\* if (bestMove): executeMove(bestMove) on the state as it is now
ExecuteMove ==
    /\ search.pc = "found"
    /\ LET move == search.bestMove
           st == placeWord([grid |-> grid, hand |-> cpuHand, coords |-> <<>>],
                           move, 1, turnCount)
           baseScore == calculateScrabbleScore(st.grid, st.coords)
           analysis == analyzeBoardLogic(st.grid, dictionary, placementMode)
           logicBonus == calculateChainScore(analysis.chains,
                                             analysis.allValidWords, turnCount)
           draw == drawTiles(st.hand, tileBag)
       IN  /\ grid' = st.grid
           /\ turnCount' = turnCount + 1
           /\ cpuScore' = cpuScore + baseScore + logicBonus.score
           /\ cpuHand' = draw.hand
           /\ tileBag' = draw.bag
           /\ call' = [fn |-> "executeMove", move |-> move,
                       seen |-> search.seen]
           /\ out' = baseScore + logicBonus.score
    /\ isCpuTurn' = FALSE
    /\ search' = [pc |-> "idle"]
    /\ searchFrame

\* else: passCpuTurn()
PassCpuTurn ==
    /\ search.pc = "none"
    /\ \E newBag \in Shuffles(tileBag \o cpuHand) :
          LET draw == drawTiles(<<>>, newBag)
          IN  /\ cpuHand' = draw.hand
              /\ tileBag' = draw.bag
    /\ isCpuTurn' = FALSE
    /\ search' = [pc |-> "idle"]
    /\ call' = [fn |-> "passCpuTurn", seen |-> search.seen]
    /\ out' = FALSE
    /\ UNCHANGED <<grid, turnCount, cpuScore>>
    /\ searchFrame

NextCpu ==
    \/ LoadDictionary
    \/ StartSearch
    \/ Scan
    \/ Evaluate
    \/ ExecuteMove
    \/ PassCpuTurn

SpecCpu == InitCpu /\ [][NextCpu]_vars

\* The candidates of the finished search that evaluatePlacement accepted, by
\* their place in the order of evaluation
AcceptedIn(seen) == {i \in 1 .. Len(seen) : seen[i].accepted}

SameMove(m, n) ==
    /\ m.word = n.word
    /\ m.pivot = n.pivot
    /\ m.anchor = n.anchor
    /\ m.dir = n.dir

\* C18: the move the search commits is an accepted candidate of the highest
\* value (base score plus cascade score) among all accepted candidates of the
\* enumeration, the first evaluated of those of equal value, and it scores
\* that value; the opponent passes only if no evaluated candidate was accepted.
C18_BestAcceptedIsCommitted ==
    /\ call.fn = "executeMove" =>
          \E i \in AcceptedIn(call.seen) :
             /\ SameMove(call.seen[i].move, call.move)
             /\ out = call.seen[i].value
             /\ \A j \in AcceptedIn(call.seen) :
                   /\ call.seen[j].value <= call.seen[i].value
                   /\ j < i => call.seen[j].value < call.seen[i].value
    /\ call.fn = "passCpuTurn" => AcceptedIn(call.seen) = {}

\* The board g with the letters of the cells `new` as newly placed ones
AsPlaced(g, new) ==
    [r \in Coords |-> [c \in Coords |->
        IF <<r, c>> \in new THEN [g[r][c] EXCEPT !.isLocked = FALSE]
        ELSE g[r][c]]]

\* C19: the board the opponent's search commits satisfies the validation
\* rules with its new letters taken as newly placed, unlocked letters: in
\* FIXED mode no row or column run holds a new letter together with two
\* consecutive letters that were locked before the search, and in ACROSTIC
\* mode the new letters are joined to letters locked before.
C19_CommittedPlacementIsValid ==
    [][(search.pc = "found" /\ search'.pc = "idle") =>
          LET new == Lettered(grid') \ Lettered(grid)
              placed == AsPlaced(grid', new)
          IN  /\ validatePlacementRules(placed, gameMode, placementMode,
                                        dictionary)
              /\ gameMode = "FIXED" =>
                    \A run \in Runs(placed) : ~BadRun(placed, run)
              /\ (placementMode = "ACROSTIC" /\ LockedCells(grid) # {}) =>
                    new \subseteq Joined(placed, LockedCells(grid))]_vars

\* Some step of the opponent's turn is due: the fetch has not settled, the
\* effect has yet to start the search, or the search stands at one of its
\* timers or continuations. Each of these steps changes the state, so this
\* is ENABLED <<NextCpu>>_vars spelled out from the guards of the actions.
Pending ==
    \/ isLoadingDict
    \/ search.pc = "idle" /\ isCpuTurn /\ playMode = "VS_CPU"
    \/ search.pc \in {"start", "scan", "found", "none"}

\* The event loop runs every timer and every resumed continuation of the
\* search (the effect that starts it, the waits of 600, 400 and 1000 ms, the
\* yields of setTimeout 0), and the fetch settles: weak fairness of NextCpu,
\* written out as "infinitely often nothing is due or a step is taken".
SpecCpuFair == SpecCpu /\ ([]<>(~Pending) \/ []<><<NextCpu>>_vars)

TurnBegun == isCpuTurn /\ playMode = "VS_CPU" /\ ~isLoadingDict

SearchEnded ==
    /\ search.pc = "idle"
    /\ ~isCpuTurn
    /\ call.fn \in {"executeMove", "passCpuTurn"}

\* C20: whenever it is the opponent's turn in VS_CPU play and the dictionary
\* load has finished, the search eventually ends, in a committed move or in a
\* pass, and then it is the player's turn (isCpuTurn false); a rejected
\* candidate does not stop the search.
C20_SearchEnds == TurnBegun ~> SearchEnded

\* A search that ended in a move after its first candidate was rejected.
C20_Witness ==
    /\ SearchEnded
    /\ call.fn = "executeMove"
    /\ ~call.seen[1].accepted
    /\ \E i \in AcceptedIn(call.seen) : SameMove(call.seen[i].move, call.move)

-----------------------------------------------------------------------------
(* The tile system and the board generator: generateTileBag, drawTiles,
   generateBoard *)

LETTER_DISTRIBUTION ==
    [A |-> 9, B |-> 2, C |-> 2, D |-> 4, E |-> 12, F |-> 2, G |-> 3, H |-> 2,
     I |-> 9, J |-> 1, K |-> 1, L |-> 4, M |-> 2, N |-> 6, O |-> 8, P |-> 2,
     Q |-> 1, R |-> 6, S |-> 4, T |-> 6, U |-> 4, V |-> 2, W |-> 2, X |-> 1,
     Y |-> 2, Z |-> 1] @@ ("*" :> 2)

\* Object.entries(LETTER_DISTRIBUTION): the keys in the order they are written
distributionKeys == Append(alphabet, "*")

\* (mutant) for (let i = 0; i <= count; i++)
pushLetter_OneMore(bag, letter, count) ==
    bag \o [i \in 1 .. (count + 1) |-> letter]

\* for (let i = 0; i < count; i++) bag.push(letter)
pushLetter(bag, letter, count) == bag \o [i \in 1 .. count |-> letter]

RECURSIVE fillBag(_, _)
fillBag(bag, k) ==
    IF k > Len(distributionKeys) THEN bag
    ELSE fillBag(pushLetter(bag, distributionKeys[k],
                            LETTER_DISTRIBUTION[distributionKeys[k]]), k + 1)

\* The bags generateTileBag can return: the filled bag as Fisher-Yates leaves it
generateTileBag == Shuffles(fillBag(<<>>, 1))

MaxBagLen == 4

BagLetters == {"A", "*"}

RECURSIVE BagsOfLen(_)
BagsOfLen(n) ==
    IF n = 0 THEN {<<>>}
    ELSE {Append(b, l) : b \in BagsOfLen(n - 1), l \in BagLetters}

\* A hand of up to seven tiles and a bag, before a draw
InitTiles ==
    /\ \E n \in 0 .. HAND_SIZE : playerHand = handOf(n)
    /\ \E n \in 0 .. MaxBagLen : tileBag \in BagsOfLen(n)
    /\ grid = generateBoard
    /\ gameMode = "DYNAMIC"
    /\ placementMode = "ACROSTIC"
    /\ dictionary = null
    /\ isLoadingDict = TRUE
    /\ cpuHand = <<>>
    /\ turnMoves = <<>>
    /\ isCpuTurn = FALSE
    /\ turnCount = 1
    /\ playerScore = 0
    /\ cpuScore = 0
    /\ playMode = "VS_CPU"
    /\ connRef = FALSE
    /\ sent = <<>>
    /\ NoSession
    /\ rawOps = <<>>
    /\ call = idle
    /\ out = FALSE

DrawTiles ==
    /\ call = idle
    /\ call' = [fn |-> "drawTiles"]
    /\ out' = drawTiles(playerHand, tileBag)
    /\ UNCHANGED gameVars

GenerateTileBag ==
    /\ call = idle
    /\ call' = [fn |-> "generateTileBag"]
    /\ out' \in generateTileBag
    /\ UNCHANGED gameVars

GenerateBoard ==
    /\ call = idle
    /\ call' = [fn |-> "generateBoard"]
    /\ out' = generateBoard
    /\ UNCHANGED gameVars

NextTiles == DrawTiles \/ GenerateTileBag \/ GenerateBoard

SpecTiles == InitTiles /\ [][NextTiles]_vars

drawn == call.fn = "drawTiles"

\* C23: drawTiles returns a hand of length min(7, hand length + bag length),
\* the old hand followed by the tiles from the front of the bag, and the bag
\* without the tiles drawn, the rest in its order; with an empty bag or a full
\* hand it returns both unchanged.
C23_DrawInvariant ==
    drawn =>
        LET n == Len(out.hand) - Len(playerHand)
        IN  /\ Len(out.hand) = Min(HAND_SIZE, Len(playerHand) + Len(tileBag))
            /\ n >= 0
            /\ Len(out.bag) = Len(tileBag) - n
            /\ out.hand = playerHand \o SubSeq(tileBag, 1, n)
            /\ out.bag = SubSeq(tileBag, n + 1, Len(tileBag))
            /\ (tileBag = <<>> \/ Len(playerHand) = HAND_SIZE) =>
                  (out.hand = playerHand /\ out.bag = tileBag)

\* A draw that fills the hand and leaves tiles in the bag.
C23_Witness ==
    /\ drawn
    /\ Len(playerHand) < HAND_SIZE
    /\ Len(out.hand) = HAND_SIZE
    /\ out.bag # <<>>
    /\ out.bag # tileBag

generated == call.fn = "generateTileBag"

\* How often a tile occurs in a bag
Count(bag, letter) == Cardinality({i \in 1 .. Len(bag) : bag[i] = letter})

\* The sum of the distribution table over the first k keys
RECURSIVE TableSum(_)
TableSum(k) ==
    IF k = 0 THEN 0
    ELSE LETTER_DISTRIBUTION[distributionKeys[k]] + TableSum(k - 1)

\* C24 (as claimed): generateTileBag returns a bag of exactly 101 tiles.
C24_BagOf101Tiles == generated => Len(out) = 101

\* C24: generateTileBag returns a bag of exactly 100 tiles, the sum of the
\* distribution table over the 26 letters and the wildcard, and holds every
\* tile as often as the table says.
C24_BagMatchesTable ==
    generated =>
        /\ Len(out) = 100
        /\ Len(out) = TableSum(Len(distributionKeys))
        /\ \A k \in 1 .. Len(distributionKeys) :
              Count(out, distributionKeys[k])
                  = LETTER_DISTRIBUTION[distributionKeys[k]]

\* A generated bag that the shuffle has reordered: a wildcard comes first.
C24_Witness == generated /\ out[1] = "*" /\ Count(out, "*") = 2

boardMade == call.fn = "generateBoard"

\* The layers of the layout in their order of priority, each a set of cells
\* and the operator it gives them.
Layers ==
    <<[cells |-> {0, 10} \X {0, 10}, op |-> "MULT"],
      [cells |-> {<<5, 5>>}, op |-> "START"],
      [cells |-> {<<2, 8>>}, op |-> "OVER"],
      [cells |-> {<<4, 4>>}, op |-> "IF"],
      [cells |-> {<<5, 0>>}, op |-> "OVER"],
      [cells |-> {<<6, 6>>}, op |-> "OR"],
      [cells |-> {<<5, 10>>}, op |-> "IF"],
      [cells |-> {<<8, 2>>}, op |-> "OR"],
      [cells |-> {2, 8} \X {2, 8}, op |-> "IF"],
      [cells |-> ({2, 8} \X {5}) \cup ({5} \X {2, 8}), op |-> "THEN"],
      [cells |-> {<<4, 4>>, <<4, 6>>, <<6, 4>>, <<6, 6>>}, op |-> "OVER"],
      [cells |-> {rc \in (1 .. 9) \X (0 .. 10) :
                     /\ rc[1] - 5 \in {rc[2] - 5, 5 - rc[2]}
                     /\ rc[1] # 5},
       op |-> "AND"],
      [cells |-> {1, 9} \X {5}, op |-> "PLUS"],
      [cells |-> {5} \X {1, 9}, op |-> "MINUS"],
      [cells |-> {<<0, 5>>, <<10, 5>>, <<5, 0>>, <<5, 10>>}, op |-> "OR"]>>

\* The operator of the first layer that holds the cell
LayerOperator(rc) ==
    IF \E k \in 1 .. Len(Layers) : rc \in Layers[k].cells
    THEN Layers[CHOOSE k \in 1 .. Len(Layers) :
                    /\ rc \in Layers[k].cells
                    /\ \A j \in 1 .. (k - 1) : rc \notin Layers[j].cells].op
    ELSE "NONE"

\* C25: generateBoard gives every cell of the 11x11 grid the operator of the
\* first matching layer (corners, start, the six overrides, inner ring,
\* diagonals, crosses, edge midpoints), no operator otherwise, and no letter.
C25_BoardLayout ==
    boardMade =>
        /\ DOMAIN out = 0 .. 10
        /\ \A r \in 0 .. 10 :
              /\ DOMAIN out[r] = 0 .. 10
              /\ \A c \in 0 .. 10 :
                    /\ out[r][c].operator = LayerOperator(<<r, c>>)
                    /\ out[r][c].letter = NoLetter

\* A generated board on which the overrides beat the ring, the diagonal and
\* the edge.
C25_Witness ==
    /\ boardMade
    /\ out[2][8].operator = "OVER"
    /\ out[6][6].operator = "OR"
    /\ out[5][10].operator = "IF"
    /\ out[3][3].operator = "AND"

-----------------------------------------------------------------------------
(* The host during the opponent's search: the mode buttons *)

\* resetGame with the bag generateTileBag returned
resetGame(initialBag) ==
    LET pDraw == drawTiles(<<>>, initialBag)
        cDraw == drawTiles(<<>>, pDraw.bag)
    IN  /\ grid' = generateBoard
        /\ tileBag' = cDraw.bag
        /\ playerHand' = pDraw.hand
        /\ cpuHand' = cDraw.hand
        /\ turnMoves' = <<>>
        /\ playerScore' = 0
        /\ cpuScore' = 0
        /\ isCpuTurn' = FALSE
        /\ turnCount' = 1

\* The host runs a click handler only when the search is not on the stack:
\* during its waits, and in the loop before the first evaluation of a word.
hostRuns == search.pc = "scan" => Head(search.queue).yield

\* The game mode button: toggleGameMode
ToggleGameMode ==
    /\ hostRuns
    /\ gameMode' = IF gameMode = "DYNAMIC" THEN "FIXED" ELSE "DYNAMIC"
    /\ \E initialBag \in generateTileBag : resetGame(initialBag)
    /\ call' = [fn |-> "toggleGameMode"]
    /\ UNCHANGED <<placementMode, dictionary, isLoadingDict, playMode, connRef,
                   sent, rawOps, peer, inbox, timer, search, snapshots, out>>

\* The placement mode button: togglePlacementMode
TogglePlacementMode ==
    /\ hostRuns
    /\ placementMode' = IF placementMode = "ACROSTIC" THEN "GO" ELSE "ACROSTIC"
    /\ \E initialBag \in generateTileBag : resetGame(initialBag)
    /\ call' = [fn |-> "togglePlacementMode"]
    /\ UNCHANGED <<gameMode, dictionary, isLoadingDict, playMode, connRef,
                   sent, rawOps, peer, inbox, timer, search, snapshots, out>>

MaxYieldLetters == 2

\* The hands the opponent ends the game with.
YieldHands == {<<"H", "T", "A">>, <<"A">>}

\* The cells the player reaches between two steps of the search, and the
\* tile laid there.
YieldCells == {<<3, 9>>, <<4, 9>>}

YieldLetter == "A"

\* handleCellClick / handleRackTileClick / handleDrop while the opponent's
\* search is suspended
PlaceDuringSearch ==
    /\ hostRuns
    /\ search.pc # "idle"
    /\ ~isCpuTurn
    /\ indexOf(playerHand, YieldLetter) > 0
    /\ \E rc \in YieldCells :
          /\ ~hasLetter(grid[rc[1]][rc[2]])
          /\ SetLocal(performTilePlacement(Local, rc[1], rc[2], YieldLetter,
                                           indexOf(playerHand, YieldLetter)))
    /\ call' = [fn |-> "performTilePlacement"]
    /\ UNCHANGED <<gameMode, placementMode, dictionary, isLoadingDict, sent,
                   rawOps, peer, inbox, timer, search, snapshots, out>>

\* The opponent's turn has begun with the word list loaded.
InitYield ==
    /\ \E lay \in CpuLays(MaxYieldLetters) :
          /\ \A rc \in BonusRegion : lay[rc] # NoTile <=> rc[1] = 4 /\ rc[2] < 10
          /\ grid = BonusOverlay(lay)
    /\ gameMode = "DYNAMIC"
    /\ placementMode = "ACROSTIC"
    /\ isLoadingDict = FALSE
    /\ dictionary = WordSet(Words)
    /\ tileBag = <<>>
    /\ turnMoves = <<>>
    /\ playerHand = handOf(HAND_SIZE)
    /\ cpuHand \in YieldHands
    /\ isCpuTurn = TRUE
    /\ turnCount = 2
    /\ playerScore = 10
    /\ cpuScore = 7
    /\ playMode = "VS_CPU"
    /\ connRef = FALSE
    /\ sent = <<>>
    /\ NoSession
    /\ rawOps = <<>>
    /\ call = idle
    /\ out = FALSE

NextYield ==
    \/ StartSearch
    \/ Scan
    \/ Evaluate
    \/ ExecuteMove
    \/ PassCpuTurn
    \/ ToggleGameMode
    \/ TogglePlacementMode
    \/ PlaceDuringSearch

SpecYield == InitYield /\ [][NextYield]_vars

\* The enumeration stands where it can yield to the host.
YieldPoint == search.pc = "scan" /\ Head(search.queue).yield

\* C21: no operation that runs while the enumeration has yielded changes
\* what evaluatePlacement and executeMove read from the live state: the
\* board, the opponent's hand, the bag, the mode flags and the turn counter
\* are the same when the enumeration resumes.
C21_YieldChangesNothing ==
    [][(YieldPoint /\ search' = search) =>
          UNCHANGED <<grid, cpuHand, tileBag, gameMode, placementMode,
                      turnCount>>]_vars

-----------------------------------------------------------------------------
(* Passing: handlePass of the player, passCpuTurn of the opponent. *)

TileLetters == {distributionKeys[k] : k \in 1 .. Len(distributionKeys)}

\* The cells of board g that hold an unlocked letter.
UnlockedLetters(g) ==
    {rc \in Coords \X Coords :
        hasLetter(g[rc[1]][rc[2]]) /\ ~g[rc[1]][rc[2]].isLocked}

\* How many of the cells hold tile l, a resolved blank counting as '*'.
OnBoard(g, cells, l) ==
    Cardinality({rc \in cells : tileOf(g[rc[1]][rc[2]]) = l})

playerPasses == call'.fn = "handlePass"

cpuPasses == call'.fn = "passCpuTurn"

\* C22: a pass returns the passer's whole hand and, for the player, every
\* unlocked letter of the board (a resolved blank as '*') to the bag and
\* redraws: the passer then holds min(7, size of the bag after the return)
\* tiles, hand and bag together are the tiles returned, the board holds no
\* unlocked letter, and the locked cells, both scores and the other side's
\* hand are as before.
C22_PassReturnsAndRedraws ==
    [][/\ playerPasses =>
            /\ Len(playerHand') =
                   Min(HAND_SIZE, Len(tileBag) + Len(playerHand)
                                  + Cardinality(UnlockedLetters(grid)))
            /\ \A l \in TileLetters :
                   Count(playerHand' \o tileBag', l) =
                       Count(playerHand \o tileBag, l)
                       + OnBoard(grid, UnlockedLetters(grid), l)
            /\ UnlockedLetters(grid') = {}
            /\ \A rc \in LockedLetters(grid) :
                   grid'[rc[1]][rc[2]] = grid[rc[1]][rc[2]]
            /\ UNCHANGED <<playerScore, cpuScore, cpuHand>>
       /\ cpuPasses =>
            /\ Len(cpuHand') = Min(HAND_SIZE, Len(tileBag) + Len(cpuHand))
            /\ \A l \in TileLetters :
                   Count(cpuHand' \o tileBag', l) = Count(cpuHand \o tileBag, l)
            /\ UNCHANGED <<grid, playerScore, cpuScore, playerHand>>]_vars

-----------------------------------------------------------------------------
(* The two instances of a P2P session after a snapshot. *)

\* A snapshot has just been applied by one of the instances.
takenIn == call.fn \in {"connection.on.data", "peer:connection.on.data"}

\* Both instances hold the same board, bag and turn counter, and each one's
\* hand and score are the other's opponent hand and opponent score.
Mirrored ==
    /\ grid = peer.grid
    /\ tileBag = peer.tileBag
    /\ turnCount = peer.turnCount
    /\ playerHand = peer.cpuHand
    /\ cpuHand = peer.playerHand
    /\ playerScore = peer.cpuScore
    /\ cpuScore = peer.playerScore

\* C26: once an instance has applied a received INIT_GAME or TURN_COMMIT
\* snapshot, its board, bag and turn counter equal the sender's and its hands
\* and scores are the sender's with the two sides exchanged: after every
\* committed or passed turn both instances hold the same game.
C26_SnapshotMirrors == takenIn => Mirrored

-----------------------------------------------------------------------------
(* A P2P session played with full hands. *)

\* The host's second turn with seven tiles on each side and the tail of
\* the bag.
InitSession ==
    /\ grid = Overlay(GameLay)
    /\ gameMode = "DYNAMIC"
    /\ placementMode = "ACROSTIC"
    /\ dictionary = WordSet(Words)
    /\ isLoadingDict = FALSE
    /\ tileBag = <<"L", "U">>
    /\ playerHand = turnHand(HAND_SIZE)
    /\ cpuHand = <<"E", "A", "R", "T", "H", "O", "N">>
    /\ turnMoves = <<>>
    /\ isCpuTurn = FALSE
    /\ turnCount = 2
    /\ playerScore = 2
    /\ cpuScore = 0
    /\ playMode = "P2P_HOST"
    /\ connRef = FALSE
    /\ sent = <<>>
    /\ rawOps = <<>>
    /\ peer = [grid |-> generateBoard, tileBag |-> <<>>,
               playerHand |-> handOf(HAND_SIZE), cpuHand |-> handOf(HAND_SIZE),
               turnMoves |-> <<>>, isCpuTurn |-> FALSE, turnCount |-> 1,
               playerScore |-> 0, cpuScore |-> 0, playMode |-> "VS_CPU",
               connRef |-> FALSE]
    /\ inbox = <<>>
    /\ timer = <<>>
    /\ search = [pc |-> "idle"]
    /\ snapshots = 0
    /\ call = idle
    /\ out = FALSE

\* The snapshots of a session with full hands.
MaxSessionSnapshots == 2

withinSession == snapshots' <= MaxSessionSnapshots

NextSession ==
    \/ (Place /\ withinSession)
    \/ (PerformTilePlacement /\ withinSession)
    \/ (Backspace /\ withinSession)
    \/ (RecallTiles /\ withinSession)
    \/ (HandlePass /\ withinSession)
    \/ (Commit /\ withinSession)
    \/ (Receive /\ withinSession)
    \/ (OnConnection /\ withinSession)
    \/ (SendInit /\ withinSession)
    \/ (PeerOnOpen /\ withinSession)
    \/ (PeerReceive /\ withinSession)
    \/ (PeerPlace /\ withinSession)
    \/ (PeerRecall /\ withinSession)
    \/ (PeerPass /\ withinSession)
    \/ (PeerCommit /\ withinSession)

SpecSession == InitSession /\ [][NextSession]_vars

\* C27: no hand ever holds more than seven tiles, and the player's hand
\* together with the letters of the move in progress never exceeds seven.
C27_HandsWithinSeven ==
    /\ Len(playerHand) <= HAND_SIZE
    /\ Len(cpuHand) <= HAND_SIZE
    /\ Len(playerHand) + Len(turnMoves) <= HAND_SIZE
    /\ Len(peer.playerHand) <= HAND_SIZE
    /\ Len(peer.cpuHand) <= HAND_SIZE
    /\ Len(peer.playerHand) + Len(peer.turnMoves) <= HAND_SIZE

-----------------------------------------------------------------------------
(* The tiles of a game: bag, both hands and the board. *)

resets == call'.fn \in {"toggleGameMode", "togglePlacementMode"}

\* C28: after a reset the bag, the two hands and the board (a resolved
\* blank counting as '*') together hold the tiles of generateTileBag, and
\* every other operation (placement,
\* backspace, recall, pass, commit, the opponent's move and pass) leaves
\* that multiset as it was.
C28_TilesConserved ==
    [][\/ ~resets /\ UNCHANGED <<grid, tileBag, playerHand, cpuHand>>
       \/ \E cells \in {Lettered(grid)}, cells2 \in {Lettered(grid')},
             held \in {tileBag \o playerHand \o cpuHand},
             held2 \in {tileBag' \o playerHand' \o cpuHand'} :
             \A l \in TileLetters :
                 Count(held2, l) + OnBoard(grid', cells2, l) =
                     IF resets THEN LETTER_DISTRIBUTION[l]
                     ELSE Count(held, l) + OnBoard(grid, cells, l)]_vars

-----------------------------------------------------------------------------
(* What the opponent's move does to the board. *)

\* The cell under letter k of a move.
cellUnder(move, k) ==
    <<IF move.dir = "V" THEN move.anchor.r - move.pivot + k - 1
      ELSE move.anchor.r,
      IF move.dir = "H" THEN move.anchor.c - move.pivot + k - 1
      ELSE move.anchor.c>>

offBoard(move) ==
    \E k \in 1 .. Len(move.word) : cellUnder(move, k) \notin Coords \X Coords

\* Some cell under the word holds another letter than the word's.
mismatches(g, move) ==
    \E k \in 1 .. Len(move.word) :
        LET rc == cellUnder(move, k)
        IN  /\ hasLetter(g[rc[1]][rc[2]])
            /\ g[rc[1]][rc[2]].letter # move.word[k]

\* Every cell under the word holds a letter already.
placesNothing(g, move) ==
    \A k \in 1 .. Len(move.word) :
        LET rc == cellUnder(move, k) IN hasLetter(g[rc[1]][rc[2]])

\* evaluatePlacement has run on one more candidate.
evaluates == search.pc = "scan" /\ Len(search'.seen) = Len(search.seen) + 1

\* executeMove has run.
commitsMove == search.pc = "found" /\ search'.pc = "idle"

Changed == {rc \in Coords \X Coords : grid'[rc[1]][rc[2]] # grid[rc[1]][rc[2]]}

\* C29: evaluatePlacement rejects a candidate that leaves the board, that
\* meets a different letter on a cell, or that places no new letter; the
\* committed move changes empty cells only, at least one of them, and
\* leaves every other cell as it was.
C29_MoveFillsEmptyCellsOnly ==
    [][/\ evaluates =>
            LET e == search'.seen[Len(search'.seen)]
            IN  (offBoard(e.move) \/ mismatches(grid, e.move)
                 \/ placesNothing(grid, e.move)) => ~e.accepted
       /\ commitsMove =>
            /\ Changed # {}
            /\ \A rc \in Changed : ~hasLetter(grid[rc[1]][rc[2]])]_vars

-----------------------------------------------------------------------------
(* The tiles the opponent's move takes from its hand. *)

\* How many cells the move has just filled with tile l, a cell flagged
\* isBlank counting as '*'.
Placed(l) == OnBoard(grid', Changed, l)

\* C30: the letters a committed move places, a cell flagged isBlank counting
\* as '*', are a sub-multiset of the opponent's hand at commit time; a
\* wildcard is consumed only when the hand has no tile of the letter left,
\* and a cell is flagged isBlank exactly when a wildcard was consumed for it:
\* what leaves the hand is what the board shows.
C30_PlacedTilesComeFromHand ==
    [][commitsMove =>
          /\ \A l \in TileLetters : Placed(l) <= Count(cpuHand, l)
          /\ \A rc \in Changed :
                 grid'[rc[1]][rc[2]].isBlank =>
                     Placed(grid'[rc[1]][rc[2]].letter)
                         = Count(cpuHand, grid'[rc[1]][rc[2]].letter)
          /\ \A l \in TileLetters :
                 Count(cpuHand, l) - Placed(l)
                     = Count(cpuHand', l) - Count(tileBag, l)
                       + Count(tileBag', l)]_vars

-----------------------------------------------------------------------------
(* The committed move against its evaluation. *)

\* The evaluations of the move the search is about to commit.
chosen ==
    {i \in AcceptedIn(search.seen) :
        /\ SameMove(search.seen[i].move, search.bestMove)
        /\ search.seen[i].value = search.bestMove.score}

\* C31: the score executeMove adds to the opponent's score is the value
\* evaluatePlacement computed for the chosen move, the cells it fills, with
\* their letters and isBlank flags, are the ones written on the scratch
\* board of that evaluation, and the player's score and hand stay as they
\* were.
C31_CommitMatchesEvaluation ==
    [][commitsMove =>
          /\ chosen # {}
          /\ \A i \in chosen :
                /\ cpuScore' = cpuScore + search.seen[i].value
                /\ {[r |-> rc[1], c |-> rc[2],
                     letter |-> grid'[rc[1]][rc[2]].letter,
                     isBlank |-> grid'[rc[1]][rc[2]].isBlank] : rc \in Changed}
                       = search.seen[i].placed
          /\ UNCHANGED <<playerScore, playerHand>>]_vars

-----------------------------------------------------------------------------
(* Commits on a board with two groups of letters: words locked in turn 1 on
   BonusRegion, and the move in progress next to them or far from them. *)

MaxClusterLetters == 5

ClusterRegion == BonusRegion \cup Region

\* The locked words: the IF cell (5,10) and the THEN cell (5,8) are covered.
ClusterLays(n) ==
    {lay \in CpuLays(n) : lay[<<5, 8>>] # NoTile /\ lay[<<5, 10>>] # NoTile}

\* The moves: one letter, or two letters side by side, on free cells.
ClusterMoves(lay) ==
    LET free == {rc \in ClusterRegion : rc \in BonusRegion => lay[rc] = NoTile}
        picks == {x \in free \X free \X {"A", "T"} \X {"A", "T"} :
                     \/ x[1] = x[2] /\ x[3] = x[4]
                     \/ Adjacent(x[1], x[2])}
    IN  {[rc \in ClusterRegion |->
             IF rc = x[1] THEN x[3] ELSE IF rc = x[2] THEN x[4] ELSE NoLetter] :
         x \in picks}

ClusterOverlay(lay, m) ==
    [r \in Coords |-> [c \in Coords |->
        IF <<r, c>> \in ClusterRegion /\ m[<<r, c>>] # NoLetter
        THEN [operator |-> OperatorAt(r, c), letter |-> m[<<r, c>>],
              isLocked |-> FALSE, isBlank |-> FALSE, turnPlaced |-> 0]
        ELSE BonusOverlay(lay)[r][c]]]

InitCluster ==
    /\ \E lay \in ClusterLays(MaxClusterLetters) :
          \E m \in ClusterMoves(lay) : grid = ClusterOverlay(lay, m)
    /\ gameMode = "DYNAMIC"
    /\ placementMode \in {"ACROSTIC", "GO"}
    /\ dictionary = WordSet(Words)
    /\ isLoadingDict = FALSE
    /\ tileBag = <<"L", "U">>
    /\ turnMoves = movesOf(grid)
    /\ playerHand = handOf(HAND_SIZE - Len(turnMoves))
    /\ cpuHand = <<"E", "A", "R", "T", "H", "O", "N">>
    /\ isCpuTurn = FALSE
    /\ turnCount = 2
    /\ playerScore = 10
    /\ cpuScore = 7
    /\ playMode = "VS_CPU"
    /\ connRef = FALSE
    /\ sent = <<>>
    /\ NoSession
    /\ rawOps = <<>>
    /\ call = idle
    /\ out = FALSE

SpecCluster == InitCluster /\ [][NextBonus]_vars

\* The cluster ids analyzeBoardLogic gives the lettered cells of board g.
clusterOf(g) == identifyClusters(g, placementMode).cellToCluster

-----------------------------------------------------------------------------
(* The words and operator entries that the scans of analyzeBoardLogic       *)
(* record, on boards with letters around the START cell.                    *)

MaxWordLetters == 3

WordRegion == {<<4, 4>>, <<4, 5>>, <<4, 6>>, <<5, 4>>, <<5, 5>>, <<5, 6>>}

\* At most n of the tiles on WordRegion; committed letters were placed in
\* turn 1, the letters of the move in progress carry turn 0.
WordLays(n) ==
    {lay \in [WordRegion -> ScoreTiles \cup {NoTile}] :
        Cardinality({rc \in WordRegion : lay[rc] # NoTile}) <= n}

WordOverlay(lay) ==
    [r \in Coords |-> [c \in Coords |->
        IF <<r, c>> \in WordRegion /\ lay[<<r, c>>] # NoTile
        THEN [operator |-> OperatorAt(r, c), letter |-> lay[<<r, c>>].letter,
              isLocked |-> lay[<<r, c>>].isLocked,
              isBlank |-> lay[<<r, c>>].isBlank,
              turnPlaced |-> IF lay[<<r, c>>].isLocked THEN 1 ELSE 0]
        ELSE generateBoard[r][c]]]

InitWords ==
    /\ \E lay \in WordLays(MaxWordLetters) : grid = WordOverlay(lay)
    /\ gameMode = "DYNAMIC"
    /\ placementMode \in {"ACROSTIC", "GO"}
    /\ dictionary \in {WordSet(Words), null}
    /\ isLoadingDict = FALSE
    /\ tileBag = <<>>
    /\ playerHand = <<>>
    /\ cpuHand = <<>>
    /\ turnMoves = movesOf(grid)
    /\ isCpuTurn = FALSE
    /\ turnCount = 2
    /\ playerScore = 0
    /\ cpuScore = 0
    /\ playMode = "VS_CPU"
    /\ connRef = FALSE
    /\ sent = <<>>
    /\ NoSession
    /\ rawOps = <<>>
    /\ call = idle
    /\ out = FALSE

\* grid.forEach(row => scanLine(row)) and the scans of the columns
ScanLines ==
    /\ call = idle
    /\ call' = [fn |-> "scanLine"]
    /\ out' = scanBoard(grid, dictionary, placementMode)
    /\ UNCHANGED gameVars

SpecWords == InitWords /\ [][ScanLines]_vars

scanned == call.fn = "scanLine"

ValidRuns ==
    {run \in Runs(grid) :
        dictionary.isNull \/ has(dictionary, RunWord(grid, run))}

\* The ids of the cells of a run, in reading order.
RunIds(run) ==
    [i \in 1 .. (run[3] - run[2] + 1) |->
        IF run[1][1] = "H" THEN <<run[1][2], run[2] + i - 1>>
        ELSE <<run[2] + i - 1, run[1][2]>>]

\* The cells of a run that hold an operator other than START.
OpCells(run) ==
    {rc \in RunCells(run) : grid[rc[1]][rc[2]].operator \notin {"NONE", "START"}}

\* C33: the scans of analyzeBoardLogic record each maximal run of more than
\* one letter that the dictionary accepts exactly once, with its text and its
\* score; they emit exactly one operator entry for each operator cell other
\* than START that such a run covers, carrying the cell's operator kind and
\* turnPlaced and the word's text and score, and no other entry (none for a
\* START cell); and a word is listed among the data words exactly when it
\* covers no operator cell other than START.
C33_WordsAndOperatorEntries ==
    scanned =>
        /\ Len(out.allValidWords) = Cardinality(ValidRuns)
        /\ \A run \in ValidRuns :
              /\ \E k \in DOMAIN out.allValidWords :
                    /\ out.allValidWords[k].cellIds = RunIds(run)
                    /\ out.allValidWords[k].word = RunWord(grid, run)
                    /\ out.allValidWords[k].score = RunWorth(grid, run)
                    /\ \A j \in DOMAIN out.allValidWords :
                          out.allValidWords[j].cellIds = RunIds(run) => j = k
              /\ \A rc \in OpCells(run) :
                    \E k \in DOMAIN out.rawOps :
                        /\ out.rawOps[k].id = rc
                        /\ out.rawOps[k].cellIds = RunIds(run)
                        /\ out.rawOps[k].op = grid[rc[1]][rc[2]].operator
                        /\ out.rawOps[k].turn = grid[rc[1]][rc[2]].turnPlaced
                        /\ out.rawOps[k].word = RunWord(grid, run)
                        /\ out.rawOps[k].wordScore = RunWorth(grid, run)
                        /\ \A j \in DOMAIN out.rawOps :
                              /\ out.rawOps[j].id = rc
                              /\ out.rawOps[j].cellIds = RunIds(run)
                              => j = k
        /\ \A k \in DOMAIN out.rawOps :
              \E run \in ValidRuns :
                  /\ out.rawOps[k].cellIds = RunIds(run)
                  /\ out.rawOps[k].id \in OpCells(run)
        /\ \A word \in {RunWord(grid, run) : run \in Runs(grid)}
                    \cup {out.dataWords[k].word : k \in DOMAIN out.dataWords} :
              Cardinality({k \in DOMAIN out.dataWords :
                              out.dataWords[k].word = word})
                  = Cardinality({run \in ValidRuns :
                                    /\ RunWord(grid, run) = word
                                    /\ OpCells(run) = {}})

\* A word on the IF cell crosses a word that covers only the START cell, next
\* to a run that the dictionary rejects.
C33_Witness ==
    /\ scanned
    /\ \E run1 \in ValidRuns, run2 \in ValidRuns :
          /\ OpCells(run1) # {}
          /\ OpCells(run2) = {}
          /\ <<5, 5>> \in RunCells(run2)
          /\ RunCells(run1) \cap RunCells(run2) # {}
    /\ Len(out.rawOps) > 0
    /\ Len(out.dataWords) > 0

-----------------------------------------------------------------------------
(* The place of THEN in a compiled chain.                                   *)

OtherActions == {"AND", "PLUS", "MINUS", "MULT", "OVER"}

\* The entries of a chain of the given kinds, by position.
Positions(c, kinds) == {k \in 1 .. Len(c) : c[k].op \in kinds}

\* The state of the cascade fold when it comes to the k-th Action of a chain.
FoldBefore(c, k) ==
    foldActions(SubSeq(ActionsOf(c), 1, k - 1), 1,
                [cascadeOutcome |-> 0, targetEstablished |-> FALSE])

\* C34: in every compiled chain the THEN entry, when there is one, stands
\* before every AND, PLUS, MINUS, MULT and OVER entry whatever their turns, so
\* that the cascade fold of a chain with a THEN has its target established
\* when it comes to each of them; and a chain holds at most one IF entry and
\* at most one THEN entry.
C34_ThenLeadsActions ==
    compiled =>
        \A i \in 1 .. Len(out) :
            LET c == out[i].compiledOps
            IN  /\ \A j \in Positions(c, {"THEN"}), k \in Positions(c, OtherActions) :
                      j < k
                /\ HasThen(c) =>
                      \A k \in 1 .. Len(ActionsOf(c)) :
                          ActionsOf(c)[k].op \in OtherActions =>
                              FoldBefore(c, k).targetEstablished
                /\ Cardinality(Positions(c, {"IF"})) <= 1
                /\ Cardinality(Positions(c, {"THEN"})) <= 1

\* The list holds two THEN entries, and an Action of a turn before the turn
\* of the THEN that the chain keeps.
C34_Witness ==
    /\ compiled
    /\ Cardinality(Positions(rawOps, {"THEN"})) > 1
    /\ Len(out) = 1
    /\ \E j \in Positions(out[1].compiledOps, {"THEN"}),
          k \in Positions(out[1].compiledOps, OtherActions) :
          out[1].compiledOps[k].turn < out[1].compiledOps[j].turn

-----------------------------------------------------------------------------
(* The turn counter and the turn stamps of the locked cells.                *)

\* A commit of the player that passes the two early returns.
playerCommits ==
    /\ call'.fn = "commitPlayerTurn"
    /\ ~commitRefused(turnMoves,
                      resolveGridWithBlanks(grid, gameMode, placementMode,
                                            dictionary))

\* The operations that commit no move.
keepsTurn ==
    \/ call'.fn \in {"handlePass", "recallTiles", "performTilePlacement",
                     "handleKeyDown.Backspace", "passCpuTurn"}
    \/ (call'.fn = "commitPlayerTurn" /\ ~playerCommits)

NewlyLocked == LockedCells(grid') \ LockedCells(grid)

\* C35: the turn counter is 1 after a reset, grows by one with every
\* committed move of the player or of the opponent, and is left alone by a
\* pass, a recall, a placement and a rejected commit; every locked cell
\* carries a turnPlaced of at least 1 and below the turn counter; the cells
\* that one commit locks all carry the turn counter of before the commit, and
\* no cell locked earlier carries that stamp.
C35_TurnCounter ==
    [][/\ resets => turnCount' = 1
       /\ (playerCommits \/ commitsMove) =>
             /\ turnCount' = turnCount + 1
             /\ \A rc \in NewlyLocked : grid'[rc[1]][rc[2]].turnPlaced = turnCount
             /\ \A rc \in LockedCells(grid) :
                   grid'[rc[1]][rc[2]].turnPlaced # turnCount
       /\ keepsTurn => turnCount' = turnCount
       /\ \A rc \in LockedCells(grid') :
             /\ 1 <= grid'[rc[1]][rc[2]].turnPlaced
             /\ grid'[rc[1]][rc[2]].turnPlaced < turnCount']_vars

-----------------------------------------------------------------------------
(* Unlocked letters and the move in progress.                               *)

\* The steps that end a turn: an accepted commit, a pass, and the move or
\* the pass of the opponent.
endsTurn ==
    \/ playerCommits
    \/ commitsMove
    \/ call'.fn \in {"handlePass", "passCpuTurn"}

MoveCells(moves) == {<<moves[k].r, moves[k].c>> : k \in 1 .. Len(moves)}

\* C36: after a commit, a pass or a move of the opponent every lettered cell
\* is locked and no cell holds the literal '*'; unlocked letters exist only
\* in the player's own turn, on exactly the cells that the move in progress
\* lists.
C36_UnlockedIsMoveInProgress ==
    [][/\ endsTurn =>
             /\ UnlockedCells(grid') = {}
             /\ \A rc \in Lettered(grid') : grid'[rc[1]][rc[2]].letter # "*"
       /\ UnlockedCells(grid') # {} => ~isCpuTurn'
       /\ UnlockedCells(grid') = MoveCells(turnMoves')]_vars

-----------------------------------------------------------------------------
(* The first move of a game.                                                *)

\* A commit through the commit button or the Enter key that went through.
controlsCommit ==
    /\ call'.fn \in {"commitButton", "handleKeyDown.Enter"}
    /\ grid' # grid

\* C37: the first move committed on a board without locked letters covers
\* the START cell (5,5), whether the player commits it, by the button or by
\* Enter and in either placement mode, or the opponent's search does.
C37_FirstMoveCoversStart ==
    [][isFirstTurn /\ (controlsCommit \/ commitsMove) =>
          <<5, 5>> \in NewlyLocked]_vars

-----------------------------------------------------------------------------
(* Recall of the move in progress: a turn of the player that starts with    *)
(* AT locked on the board and a hand that holds a blank.                    *)

RecallHand == <<"T", "*", "A", "H">>

RecallKeys == {"A", "E"}

InitRecall ==
    /\ grid = Overlay(GameLay)
    /\ gameMode = "DYNAMIC"
    /\ placementMode = "ACROSTIC"
    /\ dictionary = WordSet(Words)
    /\ isLoadingDict = FALSE
    /\ tileBag = <<"L", "U">>
    /\ playerHand = RecallHand
    /\ cpuHand = <<"E", "A", "R", "T", "H", "O", "N">>
    /\ turnMoves = <<>>
    /\ isCpuTurn = FALSE
    /\ turnCount = 2
    /\ playerScore = 10
    /\ cpuScore = 7
    /\ playMode = "VS_CPU"
    /\ connRef = FALSE
    /\ sent = <<>>
    /\ NoSession
    /\ rawOps = <<>>
    /\ call = idle
    /\ out = FALSE

\* handleCellClick / handleRackTileClick / handleDrop: the tile at an index
\* of the hand goes on an unlocked cell, a blank as the literal '*'
PlaceTile ==
    \E rc \in PlayCells, i \in 1 .. Len(playerHand) :
        /\ ~isCpuTurn
        /\ ~grid[rc[1]][rc[2]].isLocked
        /\ LocalStep("performTilePlacement",
               silent(performTilePlacement(Local, rc[1], rc[2],
                                           playerHand[i], i)))

\* handleKeyDown with a letter key: the tile of that letter, or else a blank,
\* goes on the active cell
TypeLetter ==
    \E rc \in PlayCells, char \in RecallKeys :
        LET letterIndex == IF indexOf(playerHand, char) > 0
                           THEN indexOf(playerHand, char)
                           ELSE indexOf(playerHand, "*")
        IN  /\ grid[rc[1]][rc[2]].letter # char
            /\ ~grid[rc[1]][rc[2]].isLocked
            /\ letterIndex > 0
            /\ LocalStep("performTilePlacement",
                   silent(performTilePlacement(Local, rc[1], rc[2], char,
                                               letterIndex)))

NextRecall == PlaceTile \/ TypeLetter \/ Backspace \/ RecallTiles

SpecRecall == InitRecall /\ [][NextRecall]_vars

recalled == call.fn = "recallTiles"

\* C38: recallTiles undoes the move in progress: after any sequence of
\* placements, replacements and backspaces followed by a recall the board is
\* the board of the start of the turn, the hand holds the tiles of the start
\* of the turn (a blank back as '*'), the move is empty, and the bag, the
\* scores and the turn counter are as they were.
C38_RecallUndoesMove ==
    recalled =>
        /\ grid = Overlay(GameLay)
        /\ \A l \in {playerHand[k] : k \in 1 .. Len(playerHand)}
                    \cup {RecallHand[k] : k \in 1 .. Len(RecallHand)} :
              Count(playerHand, l) = Count(RecallHand, l)
        /\ turnMoves = <<>>
        /\ tileBag = <<"L", "U">>
        /\ playerScore = 10
        /\ cpuScore = 7
        /\ turnCount = 2

\* The recall has brought back tiles, the blank among them: the hand holds
\* the tiles of the start in another order.
C38_Witness ==
    /\ recalled
    /\ playerHand # RecallHand
    /\ playerHand[Len(playerHand)] = "*"

-----------------------------------------------------------------------------
(* The scores: commits of the player on a board whose THEN cell (5,8) and   *)
(* MINUS cell (5,9) carry the committed words AT, HA, AH and TA.            *)

PenaltyLocked ==
    (<<4, 8>> :> "A") @@ (<<4, 9>> :> "H") @@ (<<5, 8>> :> "T") @@ (<<5, 9>> :> "A")

PenaltyCells == {<<4, 10>>, <<5, 10>>, <<6, 8>>, <<6, 9>>, <<6, 10>>}

MaxPenaltyMove == 2

\* The moves in progress: at most n tiles A, T or H on the free cells.
PenaltyMoves(n) ==
    {mv \in [PenaltyCells -> {NoLetter, "A", "T", "H"}] :
        Cardinality({rc \in PenaltyCells : mv[rc] # NoLetter}) \in 1 .. n}

PenaltyBoard(mv) ==
    [r \in Coords |-> [c \in Coords |->
        IF <<r, c>> \in DOMAIN PenaltyLocked
        THEN [operator |-> OperatorAt(r, c), letter |-> PenaltyLocked[<<r, c>>],
              isLocked |-> TRUE, isBlank |-> FALSE, turnPlaced |-> 1]
        ELSE IF <<r, c>> \in PenaltyCells /\ mv[<<r, c>>] # NoLetter
        THEN [operator |-> OperatorAt(r, c), letter |-> mv[<<r, c>>],
              isLocked |-> FALSE, isBlank |-> FALSE, turnPlaced |-> 0]
        ELSE generateBoard[r][c]]]

InitPenalty ==
    /\ \E mv \in PenaltyMoves(MaxPenaltyMove) : grid = PenaltyBoard(mv)
    /\ gameMode = "DYNAMIC"
    /\ placementMode \in {"ACROSTIC", "GO"}
    /\ dictionary = WordSet(Words)
    /\ isLoadingDict = FALSE
    /\ tileBag = <<"L", "U">>
    /\ turnMoves = movesOf(grid)
    /\ playerHand = handOf(HAND_SIZE - Len(turnMoves))
    /\ cpuHand = <<"E", "A", "R", "T", "H", "O", "N">>
    /\ isCpuTurn = FALSE
    /\ turnCount = 2
    /\ playerScore = 10
    /\ cpuScore = 7
    /\ playMode = "VS_CPU"
    /\ connRef = FALSE
    /\ sent = <<>>
    /\ NoSession
    /\ rawOps = <<>>
    /\ call = idle
    /\ out = FALSE

SpecPenalty == InitPenalty /\ [][NextBonus]_vars

\* C39: neither side's score ever decreases: a committed move of the player
\* or of the opponent adds a non-negative amount, base score plus logic
\* bonus, to the mover's score, and no other operation lowers a score.
C39_ScoresNeverDecrease ==
    [][~resets => playerScore' >= playerScore /\ cpuScore' >= cpuScore]_vars

-----------------------------------------------------------------------------
(* The opponent's search and the game it belongs to.                        *)

\* The search ends its turn: executeMove or passCpuTurn runs.
searchEnds == search.pc \in {"found", "none"} /\ search'.pc = "idle"

\* Under the move, the board holds what evaluation i saw: nothing on the
\* cells the evaluation filled, the letters of the word on the others.
AsEvaluated(i) ==
    \A k \in 1 .. Len(search.bestMove.word) :
        LET rc == cellUnder(search.bestMove, k)
        IN  IF \E p \in search.seen[i].placed : p.r = rc[1] /\ p.c = rc[2]
            THEN ~hasLetter(grid[rc[1]][rc[2]])
            ELSE grid[rc[1]][rc[2]].letter = search.bestMove.word[k]

\* C40: a search starts only in the opponent's turn and with no other search
\* under way, and it ends, by executeMove or passCpuTurn, in that same turn:
\* after a reset, a mode toggle or a change of play mode during the search no
\* move is applied to a board other than the one the search evaluated, and
\* no search commits in a turn that is not the opponent's.
C40_OneSearchPerTurn ==
    [][/\ (search.pc = "idle" /\ search'.pc # "idle") => isCpuTurn
       /\ searchEnds => isCpuTurn
       /\ commitsMove => chosen # {} /\ \A i \in chosen : AsEvaluated(i)]_vars

====
